---------------------------- MODULE Spec2Model ----------------------------
(***************************************************************************)
(* A model of the gun-violence repository:                                 *)
(*   src/src/data_utils.py        the data-acquisition layer               *)
(*   src/scripts/generate_html.py the static report generator              *)
(*                                                                         *)
(* Numbers.  A Python number is modelled as                                *)
(*   [ty |-> "int" | "float", neg |-> BOOLEAN, w |-> whole, f |-> 0..99]   *)
(* standing for (-1)^neg * (w + f/100): every float literal of the source  *)
(* has at most two decimals, and the int/float distinction is kept because *)
(* float(val) and the tables' literals differ in it.                       *)
(***************************************************************************)
EXTENDS Integers, Sequences, FiniteSets, TLC

(***************************************************************************)
(* Embedded tables (data_utils.py, "Embedded Fallback Data").  A Python    *)
(* dict keeps insertion order, so each table is the sequence of its items; *)
(* a value that is a tuple (name, number) has kind "pair", a value that is *)
(* a bare string has kind "str".                                           *)
(***************************************************************************)
\* _POPULATION_FALLBACK (src/src/data_utils.py:206-293), entries in insertion order
_POPULATION_FALLBACK ==
  << [code |-> "AFG", kind |-> "pair", name |-> "Afghanistan", num |-> [ty |-> "int", neg |-> FALSE, w |-> 41128771, f |-> 0]],
     [code |-> "ALB", kind |-> "pair", name |-> "Albania", num |-> [ty |-> "int", neg |-> FALSE, w |-> 2842321, f |-> 0]],
     [code |-> "DZA", kind |-> "pair", name |-> "Algeria", num |-> [ty |-> "int", neg |-> FALSE, w |-> 44903225, f |-> 0]],
     [code |-> "AGO", kind |-> "pair", name |-> "Angola", num |-> [ty |-> "int", neg |-> FALSE, w |-> 34503774, f |-> 0]],
     [code |-> "ARG", kind |-> "pair", name |-> "Argentina", num |-> [ty |-> "int", neg |-> FALSE, w |-> 46234830, f |-> 0]],
     [code |-> "ARM", kind |-> "pair", name |-> "Armenia", num |-> [ty |-> "int", neg |-> FALSE, w |-> 2780469, f |-> 0]],
     [code |-> "AUS", kind |-> "pair", name |-> "Australia", num |-> [ty |-> "int", neg |-> FALSE, w |-> 25978935, f |-> 0]],
     [code |-> "AUT", kind |-> "pair", name |-> "Austria", num |-> [ty |-> "int", neg |-> FALSE, w |-> 9041851, f |-> 0]],
     [code |-> "AZE", kind |-> "pair", name |-> "Azerbaijan", num |-> [ty |-> "int", neg |-> FALSE, w |-> 10093121, f |-> 0]],
     [code |-> "BHS", kind |-> "pair", name |-> "Bahamas", num |-> [ty |-> "int", neg |-> FALSE, w |-> 409984, f |-> 0]],
     [code |-> "BHR", kind |-> "pair", name |-> "Bahrain", num |-> [ty |-> "int", neg |-> FALSE, w |-> 1472233, f |-> 0]],
     [code |-> "BGD", kind |-> "pair", name |-> "Bangladesh", num |-> [ty |-> "int", neg |-> FALSE, w |-> 169356251, f |-> 0]],
     [code |-> "BRB", kind |-> "pair", name |-> "Barbados", num |-> [ty |-> "int", neg |-> FALSE, w |-> 281200, f |-> 0]],
     [code |-> "BLR", kind |-> "pair", name |-> "Belarus", num |-> [ty |-> "int", neg |-> FALSE, w |-> 9534954, f |-> 0]],
     [code |-> "BEL", kind |-> "pair", name |-> "Belgium", num |-> [ty |-> "int", neg |-> FALSE, w |-> 11584008, f |-> 0]],
     [code |-> "BLZ", kind |-> "pair", name |-> "Belize", num |-> [ty |-> "int", neg |-> FALSE, w |-> 405272, f |-> 0]],
     [code |-> "BEN", kind |-> "pair", name |-> "Benin", num |-> [ty |-> "int", neg |-> FALSE, w |-> 12996895, f |-> 0]],
     [code |-> "BTN", kind |-> "pair", name |-> "Bhutan", num |-> [ty |-> "int", neg |-> FALSE, w |-> 782455, f |-> 0]],
     [code |-> "BOL", kind |-> "pair", name |-> "Bolivia", num |-> [ty |-> "int", neg |-> FALSE, w |-> 12224110, f |-> 0]],
     [code |-> "BIH", kind |-> "pair", name |-> "Bosnia and Herzegovina", num |-> [ty |-> "int", neg |-> FALSE, w |-> 3233526, f |-> 0]],
     [code |-> "BWA", kind |-> "pair", name |-> "Botswana", num |-> [ty |-> "int", neg |-> FALSE, w |-> 2588423, f |-> 0]],
     [code |-> "BRA", kind |-> "pair", name |-> "Brazil", num |-> [ty |-> "int", neg |-> FALSE, w |-> 214326223, f |-> 0]],
     [code |-> "BRN", kind |-> "pair", name |-> "Brunei", num |-> [ty |-> "int", neg |-> FALSE, w |-> 445373, f |-> 0]],
     [code |-> "BGR", kind |-> "pair", name |-> "Bulgaria", num |-> [ty |-> "int", neg |-> FALSE, w |-> 6781953, f |-> 0]],
     [code |-> "BFA", kind |-> "pair", name |-> "Burkina Faso", num |-> [ty |-> "int", neg |-> FALSE, w |-> 22100683, f |-> 0]],
     [code |-> "BDI", kind |-> "pair", name |-> "Burundi", num |-> [ty |-> "int", neg |-> FALSE, w |-> 12551213, f |-> 0]],
     [code |-> "KHM", kind |-> "pair", name |-> "Cambodia", num |-> [ty |-> "int", neg |-> FALSE, w |-> 16767842, f |-> 0]],
     [code |-> "CMR", kind |-> "pair", name |-> "Cameroon", num |-> [ty |-> "int", neg |-> FALSE, w |-> 27198628, f |-> 0]],
     [code |-> "CAN", kind |-> "pair", name |-> "Canada", num |-> [ty |-> "int", neg |-> FALSE, w |-> 38929902, f |-> 0]],
     [code |-> "CPV", kind |-> "pair", name |-> "Cabo Verde", num |-> [ty |-> "int", neg |-> FALSE, w |-> 593149, f |-> 0]],
     [code |-> "CAF", kind |-> "pair", name |-> "Central African Republic", num |-> [ty |-> "int", neg |-> FALSE, w |-> 5579144, f |-> 0]],
     [code |-> "TCD", kind |-> "pair", name |-> "Chad", num |-> [ty |-> "int", neg |-> FALSE, w |-> 17179740, f |-> 0]],
     [code |-> "CHL", kind |-> "pair", name |-> "Chile", num |-> [ty |-> "int", neg |-> FALSE, w |-> 19603733, f |-> 0]],
     [code |-> "CHN", kind |-> "pair", name |-> "China", num |-> [ty |-> "int", neg |-> FALSE, w |-> 1412175000, f |-> 0]],
     [code |-> "COL", kind |-> "pair", name |-> "Colombia", num |-> [ty |-> "int", neg |-> FALSE, w |-> 51874024, f |-> 0]],
     [code |-> "COM", kind |-> "pair", name |-> "Comoros", num |-> [ty |-> "int", neg |-> FALSE, w |-> 821625, f |-> 0]],
     [code |-> "COG", kind |-> "pair", name |-> "Congo", num |-> [ty |-> "int", neg |-> FALSE, w |-> 5970424, f |-> 0]],
     [code |-> "COD", kind |-> "pair", name |-> "DR Congo", num |-> [ty |-> "int", neg |-> FALSE, w |-> 95894118, f |-> 0]],
     [code |-> "CRI", kind |-> "pair", name |-> "Costa Rica", num |-> [ty |-> "int", neg |-> FALSE, w |-> 5180829, f |-> 0]],
     [code |-> "CIV", kind |-> "pair", name |-> "Cote d'Ivoire", num |-> [ty |-> "int", neg |-> FALSE, w |-> 27478249, f |-> 0]],
     [code |-> "HRV", kind |-> "pair", name |-> "Croatia", num |-> [ty |-> "int", neg |-> FALSE, w |-> 3855600, f |-> 0]],
     [code |-> "CUB", kind |-> "pair", name |-> "Cuba", num |-> [ty |-> "int", neg |-> FALSE, w |-> 11212191, f |-> 0]],
     [code |-> "CYP", kind |-> "pair", name |-> "Cyprus", num |-> [ty |-> "int", neg |-> FALSE, w |-> 1251488, f |-> 0]],
     [code |-> "CZE", kind |-> "pair", name |-> "Czech Republic", num |-> [ty |-> "int", neg |-> FALSE, w |-> 10827529, f |-> 0]],
     [code |-> "DNK", kind |-> "pair", name |-> "Denmark", num |-> [ty |-> "int", neg |-> FALSE, w |-> 5903037, f |-> 0]],
     [code |-> "DJI", kind |-> "pair", name |-> "Djibouti", num |-> [ty |-> "int", neg |-> FALSE, w |-> 1105557, f |-> 0]],
     [code |-> "DOM", kind |-> "pair", name |-> "Dominican Republic", num |-> [ty |-> "int", neg |-> FALSE, w |-> 11228821, f |-> 0]],
     [code |-> "ECU", kind |-> "pair", name |-> "Ecuador", num |-> [ty |-> "int", neg |-> FALSE, w |-> 17797737, f |-> 0]],
     [code |-> "EGY", kind |-> "pair", name |-> "Egypt", num |-> [ty |-> "int", neg |-> FALSE, w |-> 109262178, f |-> 0]],
     [code |-> "SLV", kind |-> "pair", name |-> "El Salvador", num |-> [ty |-> "int", neg |-> FALSE, w |-> 6314167, f |-> 0]],
     [code |-> "GNQ", kind |-> "pair", name |-> "Equatorial Guinea", num |-> [ty |-> "int", neg |-> FALSE, w |-> 1634466, f |-> 0]],
     [code |-> "ERI", kind |-> "pair", name |-> "Eritrea", num |-> [ty |-> "int", neg |-> FALSE, w |-> 3620312, f |-> 0]],
     [code |-> "EST", kind |-> "pair", name |-> "Estonia", num |-> [ty |-> "int", neg |-> FALSE, w |-> 1348840, f |-> 0]],
     [code |-> "SWZ", kind |-> "pair", name |-> "Eswatini", num |-> [ty |-> "int", neg |-> FALSE, w |-> 1192271, f |-> 0]],
     [code |-> "ETH", kind |-> "pair", name |-> "Ethiopia", num |-> [ty |-> "int", neg |-> FALSE, w |-> 123379924, f |-> 0]],
     [code |-> "FJI", kind |-> "pair", name |-> "Fiji", num |-> [ty |-> "int", neg |-> FALSE, w |-> 929766, f |-> 0]],
     [code |-> "FIN", kind |-> "pair", name |-> "Finland", num |-> [ty |-> "int", neg |-> FALSE, w |-> 5556106, f |-> 0]],
     [code |-> "FRA", kind |-> "pair", name |-> "France", num |-> [ty |-> "int", neg |-> FALSE, w |-> 67935660, f |-> 0]],
     [code |-> "GAB", kind |-> "pair", name |-> "Gabon", num |-> [ty |-> "int", neg |-> FALSE, w |-> 2341179, f |-> 0]],
     [code |-> "GMB", kind |-> "pair", name |-> "Gambia", num |-> [ty |-> "int", neg |-> FALSE, w |-> 2639916, f |-> 0]],
     [code |-> "GEO", kind |-> "pair", name |-> "Georgia", num |-> [ty |-> "int", neg |-> FALSE, w |-> 3736400, f |-> 0]],
     [code |-> "DEU", kind |-> "pair", name |-> "Germany", num |-> [ty |-> "int", neg |-> FALSE, w |-> 83369843, f |-> 0]],
     [code |-> "GHA", kind |-> "pair", name |-> "Ghana", num |-> [ty |-> "int", neg |-> FALSE, w |-> 33475870, f |-> 0]],
     [code |-> "GRC", kind |-> "pair", name |-> "Greece", num |-> [ty |-> "int", neg |-> FALSE, w |-> 10384971, f |-> 0]],
     [code |-> "GTM", kind |-> "pair", name |-> "Guatemala", num |-> [ty |-> "int", neg |-> FALSE, w |-> 17602431, f |-> 0]],
     [code |-> "GIN", kind |-> "pair", name |-> "Guinea", num |-> [ty |-> "int", neg |-> FALSE, w |-> 13531906, f |-> 0]],
     [code |-> "GNB", kind |-> "pair", name |-> "Guinea-Bissau", num |-> [ty |-> "int", neg |-> FALSE, w |-> 2060721, f |-> 0]],
     [code |-> "GUY", kind |-> "pair", name |-> "Guyana", num |-> [ty |-> "int", neg |-> FALSE, w |-> 808726, f |-> 0]],
     [code |-> "HTI", kind |-> "pair", name |-> "Haiti", num |-> [ty |-> "int", neg |-> FALSE, w |-> 11584996, f |-> 0]],
     [code |-> "HND", kind |-> "pair", name |-> "Honduras", num |-> [ty |-> "int", neg |-> FALSE, w |-> 10278345, f |-> 0]],
     [code |-> "HUN", kind |-> "pair", name |-> "Hungary", num |-> [ty |-> "int", neg |-> FALSE, w |-> 9750149, f |-> 0]],
     [code |-> "ISL", kind |-> "pair", name |-> "Iceland", num |-> [ty |-> "int", neg |-> FALSE, w |-> 376248, f |-> 0]],
     [code |-> "IND", kind |-> "pair", name |-> "India", num |-> [ty |-> "int", neg |-> FALSE, w |-> 1417173173, f |-> 0]],
     [code |-> "IDN", kind |-> "pair", name |-> "Indonesia", num |-> [ty |-> "int", neg |-> FALSE, w |-> 275501339, f |-> 0]],
     [code |-> "IRN", kind |-> "pair", name |-> "Iran", num |-> [ty |-> "int", neg |-> FALSE, w |-> 87923432, f |-> 0]],
     [code |-> "IRQ", kind |-> "pair", name |-> "Iraq", num |-> [ty |-> "int", neg |-> FALSE, w |-> 43533592, f |-> 0]],
     [code |-> "IRL", kind |-> "pair", name |-> "Ireland", num |-> [ty |-> "int", neg |-> FALSE, w |-> 5127170, f |-> 0]],
     [code |-> "ISR", kind |-> "pair", name |-> "Israel", num |-> [ty |-> "int", neg |-> FALSE, w |-> 9557500, f |-> 0]],
     [code |-> "ITA", kind |-> "pair", name |-> "Italy", num |-> [ty |-> "int", neg |-> FALSE, w |-> 58940425, f |-> 0]],
     [code |-> "JAM", kind |-> "pair", name |-> "Jamaica", num |-> [ty |-> "int", neg |-> FALSE, w |-> 2827695, f |-> 0]],
     [code |-> "JPN", kind |-> "pair", name |-> "Japan", num |-> [ty |-> "int", neg |-> FALSE, w |-> 125124989, f |-> 0]],
     [code |-> "JOR", kind |-> "pair", name |-> "Jordan", num |-> [ty |-> "int", neg |-> FALSE, w |-> 11148278, f |-> 0]],
     [code |-> "KAZ", kind |-> "pair", name |-> "Kazakhstan", num |-> [ty |-> "int", neg |-> FALSE, w |-> 19397998, f |-> 0]],
     [code |-> "KEN", kind |-> "pair", name |-> "Kenya", num |-> [ty |-> "int", neg |-> FALSE, w |-> 54027487, f |-> 0]],
     [code |-> "KWT", kind |-> "pair", name |-> "Kuwait", num |-> [ty |-> "int", neg |-> FALSE, w |-> 4268873, f |-> 0]],
     [code |-> "KGZ", kind |-> "pair", name |-> "Kyrgyzstan", num |-> [ty |-> "int", neg |-> FALSE, w |-> 6747815, f |-> 0]],
     [code |-> "LAO", kind |-> "pair", name |-> "Laos", num |-> [ty |-> "int", neg |-> FALSE, w |-> 7529475, f |-> 0]],
     [code |-> "LVA", kind |-> "pair", name |-> "Latvia", num |-> [ty |-> "int", neg |-> FALSE, w |-> 1883008, f |-> 0]],
     [code |-> "LBN", kind |-> "pair", name |-> "Lebanon", num |-> [ty |-> "int", neg |-> FALSE, w |-> 5489739, f |-> 0]],
     [code |-> "LSO", kind |-> "pair", name |-> "Lesotho", num |-> [ty |-> "int", neg |-> FALSE, w |-> 2281454, f |-> 0]],
     [code |-> "LBR", kind |-> "pair", name |-> "Liberia", num |-> [ty |-> "int", neg |-> FALSE, w |-> 5302681, f |-> 0]],
     [code |-> "LBY", kind |-> "pair", name |-> "Libya", num |-> [ty |-> "int", neg |-> FALSE, w |-> 6812341, f |-> 0]],
     [code |-> "LTU", kind |-> "pair", name |-> "Lithuania", num |-> [ty |-> "int", neg |-> FALSE, w |-> 2831639, f |-> 0]],
     [code |-> "LUX", kind |-> "pair", name |-> "Luxembourg", num |-> [ty |-> "int", neg |-> FALSE, w |-> 660809, f |-> 0]],
     [code |-> "MDG", kind |-> "pair", name |-> "Madagascar", num |-> [ty |-> "int", neg |-> FALSE, w |-> 29611714, f |-> 0]],
     [code |-> "MWI", kind |-> "pair", name |-> "Malawi", num |-> [ty |-> "int", neg |-> FALSE, w |-> 19889742, f |-> 0]],
     [code |-> "MYS", kind |-> "pair", name |-> "Malaysia", num |-> [ty |-> "int", neg |-> FALSE, w |-> 33938221, f |-> 0]],
     [code |-> "MLI", kind |-> "pair", name |-> "Mali", num |-> [ty |-> "int", neg |-> FALSE, w |-> 22593590, f |-> 0]],
     [code |-> "MLT", kind |-> "pair", name |-> "Malta", num |-> [ty |-> "int", neg |-> FALSE, w |-> 531113, f |-> 0]],
     [code |-> "MRT", kind |-> "pair", name |-> "Mauritania", num |-> [ty |-> "int", neg |-> FALSE, w |-> 4614974, f |-> 0]],
     [code |-> "MUS", kind |-> "pair", name |-> "Mauritius", num |-> [ty |-> "int", neg |-> FALSE, w |-> 1265740, f |-> 0]],
     [code |-> "MEX", kind |-> "pair", name |-> "Mexico", num |-> [ty |-> "int", neg |-> FALSE, w |-> 127504125, f |-> 0]],
     [code |-> "MDA", kind |-> "pair", name |-> "Moldova", num |-> [ty |-> "int", neg |-> FALSE, w |-> 2615199, f |-> 0]],
     [code |-> "MNG", kind |-> "pair", name |-> "Mongolia", num |-> [ty |-> "int", neg |-> FALSE, w |-> 3398366, f |-> 0]],
     [code |-> "MNE", kind |-> "pair", name |-> "Montenegro", num |-> [ty |-> "int", neg |-> FALSE, w |-> 616177, f |-> 0]],
     [code |-> "MAR", kind |-> "pair", name |-> "Morocco", num |-> [ty |-> "int", neg |-> FALSE, w |-> 37457971, f |-> 0]],
     [code |-> "MOZ", kind |-> "pair", name |-> "Mozambique", num |-> [ty |-> "int", neg |-> FALSE, w |-> 32969518, f |-> 0]],
     [code |-> "MMR", kind |-> "pair", name |-> "Myanmar", num |-> [ty |-> "int", neg |-> FALSE, w |-> 54179306, f |-> 0]],
     [code |-> "NAM", kind |-> "pair", name |-> "Namibia", num |-> [ty |-> "int", neg |-> FALSE, w |-> 2567012, f |-> 0]],
     [code |-> "NPL", kind |-> "pair", name |-> "Nepal", num |-> [ty |-> "int", neg |-> FALSE, w |-> 30034989, f |-> 0]],
     [code |-> "NLD", kind |-> "pair", name |-> "Netherlands", num |-> [ty |-> "int", neg |-> FALSE, w |-> 17590672, f |-> 0]],
     [code |-> "NZL", kind |-> "pair", name |-> "New Zealand", num |-> [ty |-> "int", neg |-> FALSE, w |-> 5123200, f |-> 0]],
     [code |-> "NIC", kind |-> "pair", name |-> "Nicaragua", num |-> [ty |-> "int", neg |-> FALSE, w |-> 6948392, f |-> 0]],
     [code |-> "NER", kind |-> "pair", name |-> "Niger", num |-> [ty |-> "int", neg |-> FALSE, w |-> 25252722, f |-> 0]],
     [code |-> "NGA", kind |-> "pair", name |-> "Nigeria", num |-> [ty |-> "int", neg |-> FALSE, w |-> 218541212, f |-> 0]],
     [code |-> "NOR", kind |-> "pair", name |-> "Norway", num |-> [ty |-> "int", neg |-> FALSE, w |-> 5457127, f |-> 0]],
     [code |-> "OMN", kind |-> "pair", name |-> "Oman", num |-> [ty |-> "int", neg |-> FALSE, w |-> 4576298, f |-> 0]],
     [code |-> "PAK", kind |-> "pair", name |-> "Pakistan", num |-> [ty |-> "int", neg |-> FALSE, w |-> 231402117, f |-> 0]],
     [code |-> "PAN", kind |-> "pair", name |-> "Panama", num |-> [ty |-> "int", neg |-> FALSE, w |-> 4408581, f |-> 0]],
     [code |-> "PNG", kind |-> "pair", name |-> "Papua New Guinea", num |-> [ty |-> "int", neg |-> FALSE, w |-> 10142619, f |-> 0]],
     [code |-> "PRY", kind |-> "pair", name |-> "Paraguay", num |-> [ty |-> "int", neg |-> FALSE, w |-> 6780744, f |-> 0]],
     [code |-> "PER", kind |-> "pair", name |-> "Peru", num |-> [ty |-> "int", neg |-> FALSE, w |-> 33684208, f |-> 0]],
     [code |-> "PHL", kind |-> "pair", name |-> "Philippines", num |-> [ty |-> "int", neg |-> FALSE, w |-> 115559009, f |-> 0]],
     [code |-> "POL", kind |-> "pair", name |-> "Poland", num |-> [ty |-> "int", neg |-> FALSE, w |-> 36821749, f |-> 0]],
     [code |-> "PRT", kind |-> "pair", name |-> "Portugal", num |-> [ty |-> "int", neg |-> FALSE, w |-> 10352042, f |-> 0]],
     [code |-> "QAT", kind |-> "pair", name |-> "Qatar", num |-> [ty |-> "int", neg |-> FALSE, w |-> 2695122, f |-> 0]],
     [code |-> "ROU", kind |-> "pair", name |-> "Romania", num |-> [ty |-> "int", neg |-> FALSE, w |-> 19659267, f |-> 0]],
     [code |-> "RUS", kind |-> "pair", name |-> "Russia", num |-> [ty |-> "int", neg |-> FALSE, w |-> 144236933, f |-> 0]],
     [code |-> "RWA", kind |-> "pair", name |-> "Rwanda", num |-> [ty |-> "int", neg |-> FALSE, w |-> 13461888, f |-> 0]],
     [code |-> "SAU", kind |-> "pair", name |-> "Saudi Arabia", num |-> [ty |-> "int", neg |-> FALSE, w |-> 36408820, f |-> 0]],
     [code |-> "SEN", kind |-> "pair", name |-> "Senegal", num |-> [ty |-> "int", neg |-> FALSE, w |-> 17316449, f |-> 0]],
     [code |-> "SRB", kind |-> "pair", name |-> "Serbia", num |-> [ty |-> "int", neg |-> FALSE, w |-> 6664449, f |-> 0]],
     [code |-> "SLE", kind |-> "pair", name |-> "Sierra Leone", num |-> [ty |-> "int", neg |-> FALSE, w |-> 8420641, f |-> 0]],
     [code |-> "SGP", kind |-> "pair", name |-> "Singapore", num |-> [ty |-> "int", neg |-> FALSE, w |-> 5637022, f |-> 0]],
     [code |-> "SVK", kind |-> "pair", name |-> "Slovakia", num |-> [ty |-> "int", neg |-> FALSE, w |-> 5643453, f |-> 0]],
     [code |-> "SVN", kind |-> "pair", name |-> "Slovenia", num |-> [ty |-> "int", neg |-> FALSE, w |-> 2119675, f |-> 0]],
     [code |-> "SOM", kind |-> "pair", name |-> "Somalia", num |-> [ty |-> "int", neg |-> FALSE, w |-> 17597511, f |-> 0]],
     [code |-> "ZAF", kind |-> "pair", name |-> "South Africa", num |-> [ty |-> "int", neg |-> FALSE, w |-> 59893885, f |-> 0]],
     [code |-> "KOR", kind |-> "pair", name |-> "South Korea", num |-> [ty |-> "int", neg |-> FALSE, w |-> 51628117, f |-> 0]],
     [code |-> "SSD", kind |-> "pair", name |-> "South Sudan", num |-> [ty |-> "int", neg |-> FALSE, w |-> 10913164, f |-> 0]],
     [code |-> "ESP", kind |-> "pair", name |-> "Spain", num |-> [ty |-> "int", neg |-> FALSE, w |-> 47778340, f |-> 0]],
     [code |-> "LKA", kind |-> "pair", name |-> "Sri Lanka", num |-> [ty |-> "int", neg |-> FALSE, w |-> 22156000, f |-> 0]],
     [code |-> "SDN", kind |-> "pair", name |-> "Sudan", num |-> [ty |-> "int", neg |-> FALSE, w |-> 45657202, f |-> 0]],
     [code |-> "SUR", kind |-> "pair", name |-> "Suriname", num |-> [ty |-> "int", neg |-> FALSE, w |-> 612985, f |-> 0]],
     [code |-> "SWE", kind |-> "pair", name |-> "Sweden", num |-> [ty |-> "int", neg |-> FALSE, w |-> 10486941, f |-> 0]],
     [code |-> "CHE", kind |-> "pair", name |-> "Switzerland", num |-> [ty |-> "int", neg |-> FALSE, w |-> 8775760, f |-> 0]],
     [code |-> "SYR", kind |-> "pair", name |-> "Syria", num |-> [ty |-> "int", neg |-> FALSE, w |-> 22125249, f |-> 0]],
     [code |-> "TWN", kind |-> "pair", name |-> "Taiwan", num |-> [ty |-> "int", neg |-> FALSE, w |-> 23894394, f |-> 0]],
     [code |-> "TJK", kind |-> "pair", name |-> "Tajikistan", num |-> [ty |-> "int", neg |-> FALSE, w |-> 9952787, f |-> 0]],
     [code |-> "TZA", kind |-> "pair", name |-> "Tanzania", num |-> [ty |-> "int", neg |-> FALSE, w |-> 63588334, f |-> 0]],
     [code |-> "THA", kind |-> "pair", name |-> "Thailand", num |-> [ty |-> "int", neg |-> FALSE, w |-> 71697030, f |-> 0]],
     [code |-> "TLS", kind |-> "pair", name |-> "Timor-Leste", num |-> [ty |-> "int", neg |-> FALSE, w |-> 1341296, f |-> 0]],
     [code |-> "TGO", kind |-> "pair", name |-> "Togo", num |-> [ty |-> "int", neg |-> FALSE, w |-> 8848699, f |-> 0]],
     [code |-> "TTO", kind |-> "pair", name |-> "Trinidad and Tobago", num |-> [ty |-> "int", neg |-> FALSE, w |-> 1525663, f |-> 0]],
     [code |-> "TUN", kind |-> "pair", name |-> "Tunisia", num |-> [ty |-> "int", neg |-> FALSE, w |-> 12356117, f |-> 0]],
     [code |-> "TUR", kind |-> "pair", name |-> "Turkey", num |-> [ty |-> "int", neg |-> FALSE, w |-> 84775404, f |-> 0]],
     [code |-> "TKM", kind |-> "pair", name |-> "Turkmenistan", num |-> [ty |-> "int", neg |-> FALSE, w |-> 6341855, f |-> 0]],
     [code |-> "UGA", kind |-> "pair", name |-> "Uganda", num |-> [ty |-> "int", neg |-> FALSE, w |-> 45853778, f |-> 0]],
     [code |-> "UKR", kind |-> "pair", name |-> "Ukraine", num |-> [ty |-> "int", neg |-> FALSE, w |-> 43792855, f |-> 0]],
     [code |-> "ARE", kind |-> "pair", name |-> "United Arab Emirates", num |-> [ty |-> "int", neg |-> FALSE, w |-> 9441129, f |-> 0]],
     [code |-> "GBR", kind |-> "pair", name |-> "United Kingdom", num |-> [ty |-> "int", neg |-> FALSE, w |-> 67508936, f |-> 0]],
     [code |-> "USA", kind |-> "pair", name |-> "United States", num |-> [ty |-> "int", neg |-> FALSE, w |-> 333287557, f |-> 0]],
     [code |-> "URY", kind |-> "pair", name |-> "Uruguay", num |-> [ty |-> "int", neg |-> FALSE, w |-> 3422794, f |-> 0]],
     [code |-> "UZB", kind |-> "pair", name |-> "Uzbekistan", num |-> [ty |-> "int", neg |-> FALSE, w |-> 35163944, f |-> 0]],
     [code |-> "VEN", kind |-> "pair", name |-> "Venezuela", num |-> [ty |-> "int", neg |-> FALSE, w |-> 28301696, f |-> 0]],
     [code |-> "VNM", kind |-> "pair", name |-> "Vietnam", num |-> [ty |-> "int", neg |-> FALSE, w |-> 98186856, f |-> 0]],
     [code |-> "YEM", kind |-> "pair", name |-> "Yemen", num |-> [ty |-> "int", neg |-> FALSE, w |-> 33696614, f |-> 0]],
     [code |-> "ZMB", kind |-> "pair", name |-> "Zambia", num |-> [ty |-> "int", neg |-> FALSE, w |-> 19473125, f |-> 0]],
     [code |-> "ZWE", kind |-> "pair", name |-> "Zimbabwe", num |-> [ty |-> "int", neg |-> FALSE, w |-> 15993524, f |-> 0]] >>

\* _GINI_FALLBACK (src/src/data_utils.py:297-375), entries in insertion order
_GINI_FALLBACK ==
  << [code |-> "ALB", kind |-> "pair", name |-> "Albania", num |-> [ty |-> "float", neg |-> FALSE, w |-> 30, f |-> 0]],
     [code |-> "DZA", kind |-> "pair", name |-> "Algeria", num |-> [ty |-> "float", neg |-> FALSE, w |-> 27, f |-> 60]],
     [code |-> "AGO", kind |-> "pair", name |-> "Angola", num |-> [ty |-> "float", neg |-> FALSE, w |-> 51, f |-> 30]],
     [code |-> "ARG", kind |-> "pair", name |-> "Argentina", num |-> [ty |-> "float", neg |-> FALSE, w |-> 42, f |-> 30]],
     [code |-> "ARM", kind |-> "pair", name |-> "Armenia", num |-> [ty |-> "float", neg |-> FALSE, w |-> 29, f |-> 90]],
     [code |-> "AUS", kind |-> "pair", name |-> "Australia", num |-> [ty |-> "float", neg |-> FALSE, w |-> 34, f |-> 30]],
     [code |-> "AUT", kind |-> "pair", name |-> "Austria", num |-> [ty |-> "float", neg |-> FALSE, w |-> 30, f |-> 50]],
     [code |-> "AZE", kind |-> "pair", name |-> "Azerbaijan", num |-> [ty |-> "float", neg |-> FALSE, w |-> 26, f |-> 60]],
     [code |-> "BGD", kind |-> "pair", name |-> "Bangladesh", num |-> [ty |-> "float", neg |-> FALSE, w |-> 32, f |-> 40]],
     [code |-> "BLR", kind |-> "pair", name |-> "Belarus", num |-> [ty |-> "float", neg |-> FALSE, w |-> 25, f |-> 30]],
     [code |-> "BEL", kind |-> "pair", name |-> "Belgium", num |-> [ty |-> "float", neg |-> FALSE, w |-> 27, f |-> 20]],
     [code |-> "BLZ", kind |-> "pair", name |-> "Belize", num |-> [ty |-> "float", neg |-> FALSE, w |-> 53, f |-> 30]],
     [code |-> "BEN", kind |-> "pair", name |-> "Benin", num |-> [ty |-> "float", neg |-> FALSE, w |-> 37, f |-> 80]],
     [code |-> "BTN", kind |-> "pair", name |-> "Bhutan", num |-> [ty |-> "float", neg |-> FALSE, w |-> 37, f |-> 40]],
     [code |-> "BOL", kind |-> "pair", name |-> "Bolivia", num |-> [ty |-> "float", neg |-> FALSE, w |-> 43, f |-> 60]],
     [code |-> "BIH", kind |-> "pair", name |-> "Bosnia and Herzegovina", num |-> [ty |-> "float", neg |-> FALSE, w |-> 33, f |-> 0]],
     [code |-> "BWA", kind |-> "pair", name |-> "Botswana", num |-> [ty |-> "float", neg |-> FALSE, w |-> 53, f |-> 30]],
     [code |-> "BRA", kind |-> "pair", name |-> "Brazil", num |-> [ty |-> "float", neg |-> FALSE, w |-> 52, f |-> 90]],
     [code |-> "BGR", kind |-> "pair", name |-> "Bulgaria", num |-> [ty |-> "float", neg |-> FALSE, w |-> 40, f |-> 30]],
     [code |-> "BFA", kind |-> "pair", name |-> "Burkina Faso", num |-> [ty |-> "float", neg |-> FALSE, w |-> 47, f |-> 30]],
     [code |-> "BDI", kind |-> "pair", name |-> "Burundi", num |-> [ty |-> "float", neg |-> FALSE, w |-> 38, f |-> 60]],
     [code |-> "KHM", kind |-> "pair", name |-> "Cambodia", num |-> [ty |-> "float", neg |-> FALSE, w |-> 38, f |-> 0]],
     [code |-> "CMR", kind |-> "pair", name |-> "Cameroon", num |-> [ty |-> "float", neg |-> FALSE, w |-> 46, f |-> 60]],
     [code |-> "CAN", kind |-> "pair", name |-> "Canada", num |-> [ty |-> "float", neg |-> FALSE, w |-> 33, f |-> 30]],
     [code |-> "CAF", kind |-> "pair", name |-> "Central African Republic", num |-> [ty |-> "float", neg |-> FALSE, w |-> 56, f |-> 20]],
     [code |-> "TCD", kind |-> "pair", name |-> "Chad", num |-> [ty |-> "float", neg |-> FALSE, w |-> 37, f |-> 50]],
     [code |-> "CHL", kind |-> "pair", name |-> "Chile", num |-> [ty |-> "float", neg |-> FALSE, w |-> 44, f |-> 90]],
     [code |-> "CHN", kind |-> "pair", name |-> "China", num |-> [ty |-> "float", neg |-> FALSE, w |-> 38, f |-> 20]],
     [code |-> "COL", kind |-> "pair", name |-> "Colombia", num |-> [ty |-> "float", neg |-> FALSE, w |-> 51, f |-> 50]],
     [code |-> "COM", kind |-> "pair", name |-> "Comoros", num |-> [ty |-> "float", neg |-> FALSE, w |-> 45, f |-> 30]],
     [code |-> "COG", kind |-> "pair", name |-> "Congo", num |-> [ty |-> "float", neg |-> FALSE, w |-> 48, f |-> 90]],
     [code |-> "COD", kind |-> "pair", name |-> "DR Congo", num |-> [ty |-> "float", neg |-> FALSE, w |-> 42, f |-> 10]],
     [code |-> "CRI", kind |-> "pair", name |-> "Costa Rica", num |-> [ty |-> "float", neg |-> FALSE, w |-> 48, f |-> 20]],
     [code |-> "CIV", kind |-> "pair", name |-> "Cote d'Ivoire", num |-> [ty |-> "float", neg |-> FALSE, w |-> 37, f |-> 20]],
     [code |-> "HRV", kind |-> "pair", name |-> "Croatia", num |-> [ty |-> "float", neg |-> FALSE, w |-> 29, f |-> 70]],
     [code |-> "CYP", kind |-> "pair", name |-> "Cyprus", num |-> [ty |-> "float", neg |-> FALSE, w |-> 31, f |-> 40]],
     [code |-> "CZE", kind |-> "pair", name |-> "Czech Republic", num |-> [ty |-> "float", neg |-> FALSE, w |-> 25, f |-> 30]],
     [code |-> "DNK", kind |-> "pair", name |-> "Denmark", num |-> [ty |-> "float", neg |-> FALSE, w |-> 28, f |-> 20]],
     [code |-> "DJI", kind |-> "pair", name |-> "Djibouti", num |-> [ty |-> "float", neg |-> FALSE, w |-> 41, f |-> 60]],
     [code |-> "DOM", kind |-> "pair", name |-> "Dominican Republic", num |-> [ty |-> "float", neg |-> FALSE, w |-> 39, f |-> 60]],
     [code |-> "ECU", kind |-> "pair", name |-> "Ecuador", num |-> [ty |-> "float", neg |-> FALSE, w |-> 47, f |-> 30]],
     [code |-> "EGY", kind |-> "pair", name |-> "Egypt", num |-> [ty |-> "float", neg |-> FALSE, w |-> 31, f |-> 50]],
     [code |-> "SLV", kind |-> "pair", name |-> "El Salvador", num |-> [ty |-> "float", neg |-> FALSE, w |-> 38, f |-> 80]],
     [code |-> "EST", kind |-> "pair", name |-> "Estonia", num |-> [ty |-> "float", neg |-> FALSE, w |-> 30, f |-> 40]],
     [code |-> "SWZ", kind |-> "pair", name |-> "Eswatini", num |-> [ty |-> "float", neg |-> FALSE, w |-> 54, f |-> 60]],
     [code |-> "ETH", kind |-> "pair", name |-> "Ethiopia", num |-> [ty |-> "float", neg |-> FALSE, w |-> 35, f |-> 0]],
     [code |-> "FJI", kind |-> "pair", name |-> "Fiji", num |-> [ty |-> "float", neg |-> FALSE, w |-> 36, f |-> 70]],
     [code |-> "FIN", kind |-> "pair", name |-> "Finland", num |-> [ty |-> "float", neg |-> FALSE, w |-> 27, f |-> 70]],
     [code |-> "FRA", kind |-> "pair", name |-> "France", num |-> [ty |-> "float", neg |-> FALSE, w |-> 31, f |-> 60]],
     [code |-> "GAB", kind |-> "pair", name |-> "Gabon", num |-> [ty |-> "float", neg |-> FALSE, w |-> 38, f |-> 0]],
     [code |-> "GMB", kind |-> "pair", name |-> "Gambia", num |-> [ty |-> "float", neg |-> FALSE, w |-> 35, f |-> 90]],
     [code |-> "GEO", kind |-> "pair", name |-> "Georgia", num |-> [ty |-> "float", neg |-> FALSE, w |-> 34, f |-> 50]],
     [code |-> "DEU", kind |-> "pair", name |-> "Germany", num |-> [ty |-> "float", neg |-> FALSE, w |-> 31, f |-> 70]],
     [code |-> "GHA", kind |-> "pair", name |-> "Ghana", num |-> [ty |-> "float", neg |-> FALSE, w |-> 43, f |-> 50]],
     [code |-> "GRC", kind |-> "pair", name |-> "Greece", num |-> [ty |-> "float", neg |-> FALSE, w |-> 33, f |-> 10]],
     [code |-> "GTM", kind |-> "pair", name |-> "Guatemala", num |-> [ty |-> "float", neg |-> FALSE, w |-> 48, f |-> 30]],
     [code |-> "GIN", kind |-> "pair", name |-> "Guinea", num |-> [ty |-> "float", neg |-> FALSE, w |-> 29, f |-> 60]],
     [code |-> "GNB", kind |-> "pair", name |-> "Guinea-Bissau", num |-> [ty |-> "float", neg |-> FALSE, w |-> 50, f |-> 70]],
     [code |-> "GUY", kind |-> "pair", name |-> "Guyana", num |-> [ty |-> "float", neg |-> FALSE, w |-> 45, f |-> 10]],
     [code |-> "HTI", kind |-> "pair", name |-> "Haiti", num |-> [ty |-> "float", neg |-> FALSE, w |-> 41, f |-> 10]],
     [code |-> "HND", kind |-> "pair", name |-> "Honduras", num |-> [ty |-> "float", neg |-> FALSE, w |-> 48, f |-> 20]],
     [code |-> "HUN", kind |-> "pair", name |-> "Hungary", num |-> [ty |-> "float", neg |-> FALSE, w |-> 30, f |-> 60]],
     [code |-> "ISL", kind |-> "pair", name |-> "Iceland", num |-> [ty |-> "float", neg |-> FALSE, w |-> 26, f |-> 10]],
     [code |-> "IND", kind |-> "pair", name |-> "India", num |-> [ty |-> "float", neg |-> FALSE, w |-> 35, f |-> 70]],
     [code |-> "IDN", kind |-> "pair", name |-> "Indonesia", num |-> [ty |-> "float", neg |-> FALSE, w |-> 37, f |-> 90]],
     [code |-> "IRN", kind |-> "pair", name |-> "Iran", num |-> [ty |-> "float", neg |-> FALSE, w |-> 40, f |-> 90]],
     [code |-> "IRQ", kind |-> "pair", name |-> "Iraq", num |-> [ty |-> "float", neg |-> FALSE, w |-> 29, f |-> 50]],
     [code |-> "IRL", kind |-> "pair", name |-> "Ireland", num |-> [ty |-> "float", neg |-> FALSE, w |-> 30, f |-> 60]],
     [code |-> "ISR", kind |-> "pair", name |-> "Israel", num |-> [ty |-> "float", neg |-> FALSE, w |-> 39, f |-> 0]],
     [code |-> "ITA", kind |-> "pair", name |-> "Italy", num |-> [ty |-> "float", neg |-> FALSE, w |-> 35, f |-> 20]],
     [code |-> "JAM", kind |-> "pair", name |-> "Jamaica", num |-> [ty |-> "float", neg |-> FALSE, w |-> 35, f |-> 0]],
     [code |-> "JPN", kind |-> "pair", name |-> "Japan", num |-> [ty |-> "float", neg |-> FALSE, w |-> 32, f |-> 90]],
     [code |-> "JOR", kind |-> "pair", name |-> "Jordan", num |-> [ty |-> "float", neg |-> FALSE, w |-> 33, f |-> 70]],
     [code |-> "KAZ", kind |-> "pair", name |-> "Kazakhstan", num |-> [ty |-> "float", neg |-> FALSE, w |-> 29, f |-> 20]],
     [code |-> "KEN", kind |-> "pair", name |-> "Kenya", num |-> [ty |-> "float", neg |-> FALSE, w |-> 40, f |-> 80]],
     [code |-> "KOR", kind |-> "pair", name |-> "South Korea", num |-> [ty |-> "float", neg |-> FALSE, w |-> 31, f |-> 40]],
     [code |-> "KGZ", kind |-> "pair", name |-> "Kyrgyzstan", num |-> [ty |-> "float", neg |-> FALSE, w |-> 29, f |-> 0]],
     [code |-> "LAO", kind |-> "pair", name |-> "Laos", num |-> [ty |-> "float", neg |-> FALSE, w |-> 38, f |-> 80]],
     [code |-> "LVA", kind |-> "pair", name |-> "Latvia", num |-> [ty |-> "float", neg |-> FALSE, w |-> 35, f |-> 10]],
     [code |-> "LBN", kind |-> "pair", name |-> "Lebanon", num |-> [ty |-> "float", neg |-> FALSE, w |-> 31, f |-> 80]],
     [code |-> "LSO", kind |-> "pair", name |-> "Lesotho", num |-> [ty |-> "float", neg |-> FALSE, w |-> 44, f |-> 90]],
     [code |-> "LBR", kind |-> "pair", name |-> "Liberia", num |-> [ty |-> "float", neg |-> FALSE, w |-> 35, f |-> 30]],
     [code |-> "LTU", kind |-> "pair", name |-> "Lithuania", num |-> [ty |-> "float", neg |-> FALSE, w |-> 36, f |-> 90]],
     [code |-> "LUX", kind |-> "pair", name |-> "Luxembourg", num |-> [ty |-> "float", neg |-> FALSE, w |-> 35, f |-> 40]],
     [code |-> "MDG", kind |-> "pair", name |-> "Madagascar", num |-> [ty |-> "float", neg |-> FALSE, w |-> 42, f |-> 60]],
     [code |-> "MWI", kind |-> "pair", name |-> "Malawi", num |-> [ty |-> "float", neg |-> FALSE, w |-> 44, f |-> 70]],
     [code |-> "MYS", kind |-> "pair", name |-> "Malaysia", num |-> [ty |-> "float", neg |-> FALSE, w |-> 41, f |-> 20]],
     [code |-> "MLI", kind |-> "pair", name |-> "Mali", num |-> [ty |-> "float", neg |-> FALSE, w |-> 36, f |-> 10]],
     [code |-> "MLT", kind |-> "pair", name |-> "Malta", num |-> [ty |-> "float", neg |-> FALSE, w |-> 30, f |-> 70]],
     [code |-> "MRT", kind |-> "pair", name |-> "Mauritania", num |-> [ty |-> "float", neg |-> FALSE, w |-> 32, f |-> 60]],
     [code |-> "MUS", kind |-> "pair", name |-> "Mauritius", num |-> [ty |-> "float", neg |-> FALSE, w |-> 36, f |-> 80]],
     [code |-> "MEX", kind |-> "pair", name |-> "Mexico", num |-> [ty |-> "float", neg |-> FALSE, w |-> 45, f |-> 40]],
     [code |-> "MDA", kind |-> "pair", name |-> "Moldova", num |-> [ty |-> "float", neg |-> FALSE, w |-> 26, f |-> 0]],
     [code |-> "MNG", kind |-> "pair", name |-> "Mongolia", num |-> [ty |-> "float", neg |-> FALSE, w |-> 32, f |-> 70]],
     [code |-> "MNE", kind |-> "pair", name |-> "Montenegro", num |-> [ty |-> "float", neg |-> FALSE, w |-> 36, f |-> 80]],
     [code |-> "MAR", kind |-> "pair", name |-> "Morocco", num |-> [ty |-> "float", neg |-> FALSE, w |-> 39, f |-> 50]],
     [code |-> "MOZ", kind |-> "pair", name |-> "Mozambique", num |-> [ty |-> "float", neg |-> FALSE, w |-> 54, f |-> 0]],
     [code |-> "MMR", kind |-> "pair", name |-> "Myanmar", num |-> [ty |-> "float", neg |-> FALSE, w |-> 30, f |-> 70]],
     [code |-> "NAM", kind |-> "pair", name |-> "Namibia", num |-> [ty |-> "float", neg |-> FALSE, w |-> 59, f |-> 10]],
     [code |-> "NPL", kind |-> "pair", name |-> "Nepal", num |-> [ty |-> "float", neg |-> FALSE, w |-> 32, f |-> 80]],
     [code |-> "NLD", kind |-> "pair", name |-> "Netherlands", num |-> [ty |-> "float", neg |-> FALSE, w |-> 28, f |-> 50]],
     [code |-> "NZL", kind |-> "pair", name |-> "New Zealand", num |-> [ty |-> "float", neg |-> FALSE, w |-> 36, f |-> 0]],
     [code |-> "NIC", kind |-> "pair", name |-> "Nicaragua", num |-> [ty |-> "float", neg |-> FALSE, w |-> 46, f |-> 20]],
     [code |-> "NER", kind |-> "pair", name |-> "Niger", num |-> [ty |-> "float", neg |-> FALSE, w |-> 37, f |-> 30]],
     [code |-> "NGA", kind |-> "pair", name |-> "Nigeria", num |-> [ty |-> "float", neg |-> FALSE, w |-> 35, f |-> 10]],
     [code |-> "NOR", kind |-> "pair", name |-> "Norway", num |-> [ty |-> "float", neg |-> FALSE, w |-> 27, f |-> 60]],
     [code |-> "PAK", kind |-> "pair", name |-> "Pakistan", num |-> [ty |-> "float", neg |-> FALSE, w |-> 29, f |-> 60]],
     [code |-> "PAN", kind |-> "pair", name |-> "Panama", num |-> [ty |-> "float", neg |-> FALSE, w |-> 49, f |-> 80]],
     [code |-> "PNG", kind |-> "pair", name |-> "Papua New Guinea", num |-> [ty |-> "float", neg |-> FALSE, w |-> 41, f |-> 90]],
     [code |-> "PRY", kind |-> "pair", name |-> "Paraguay", num |-> [ty |-> "float", neg |-> FALSE, w |-> 45, f |-> 10]],
     [code |-> "PER", kind |-> "pair", name |-> "Peru", num |-> [ty |-> "float", neg |-> FALSE, w |-> 43, f |-> 80]],
     [code |-> "PHL", kind |-> "pair", name |-> "Philippines", num |-> [ty |-> "float", neg |-> FALSE, w |-> 42, f |-> 30]],
     [code |-> "POL", kind |-> "pair", name |-> "Poland", num |-> [ty |-> "float", neg |-> FALSE, w |-> 29, f |-> 70]],
     [code |-> "PRT", kind |-> "pair", name |-> "Portugal", num |-> [ty |-> "float", neg |-> FALSE, w |-> 33, f |-> 60]],
     [code |-> "ROU", kind |-> "pair", name |-> "Romania", num |-> [ty |-> "float", neg |-> FALSE, w |-> 34, f |-> 80]],
     [code |-> "RUS", kind |-> "pair", name |-> "Russia", num |-> [ty |-> "float", neg |-> FALSE, w |-> 36, f |-> 0]],
     [code |-> "RWA", kind |-> "pair", name |-> "Rwanda", num |-> [ty |-> "float", neg |-> FALSE, w |-> 43, f |-> 70]],
     [code |-> "SAU", kind |-> "pair", name |-> "Saudi Arabia", num |-> [ty |-> "float", neg |-> FALSE, w |-> 45, f |-> 90]],
     [code |-> "SEN", kind |-> "pair", name |-> "Senegal", num |-> [ty |-> "float", neg |-> FALSE, w |-> 40, f |-> 30]],
     [code |-> "SRB", kind |-> "pair", name |-> "Serbia", num |-> [ty |-> "float", neg |-> FALSE, w |-> 36, f |-> 20]],
     [code |-> "SLE", kind |-> "pair", name |-> "Sierra Leone", num |-> [ty |-> "float", neg |-> FALSE, w |-> 35, f |-> 70]],
     [code |-> "SGP", kind |-> "pair", name |-> "Singapore", num |-> [ty |-> "float", neg |-> FALSE, w |-> 45, f |-> 90]],
     [code |-> "SVK", kind |-> "pair", name |-> "Slovakia", num |-> [ty |-> "float", neg |-> FALSE, w |-> 25, f |-> 20]],
     [code |-> "SVN", kind |-> "pair", name |-> "Slovenia", num |-> [ty |-> "float", neg |-> FALSE, w |-> 24, f |-> 60]],
     [code |-> "ZAF", kind |-> "pair", name |-> "South Africa", num |-> [ty |-> "float", neg |-> FALSE, w |-> 63, f |-> 0]],
     [code |-> "ESP", kind |-> "pair", name |-> "Spain", num |-> [ty |-> "float", neg |-> FALSE, w |-> 33, f |-> 0]],
     [code |-> "LKA", kind |-> "pair", name |-> "Sri Lanka", num |-> [ty |-> "float", neg |-> FALSE, w |-> 37, f |-> 70]],
     [code |-> "SDN", kind |-> "pair", name |-> "Sudan", num |-> [ty |-> "float", neg |-> FALSE, w |-> 34, f |-> 20]],
     [code |-> "SUR", kind |-> "pair", name |-> "Suriname", num |-> [ty |-> "float", neg |-> FALSE, w |-> 57, f |-> 90]],
     [code |-> "SWE", kind |-> "pair", name |-> "Sweden", num |-> [ty |-> "float", neg |-> FALSE, w |-> 30, f |-> 0]],
     [code |-> "CHE", kind |-> "pair", name |-> "Switzerland", num |-> [ty |-> "float", neg |-> FALSE, w |-> 33, f |-> 10]],
     [code |-> "TJK", kind |-> "pair", name |-> "Tajikistan", num |-> [ty |-> "float", neg |-> FALSE, w |-> 34, f |-> 0]],
     [code |-> "TZA", kind |-> "pair", name |-> "Tanzania", num |-> [ty |-> "float", neg |-> FALSE, w |-> 40, f |-> 50]],
     [code |-> "THA", kind |-> "pair", name |-> "Thailand", num |-> [ty |-> "float", neg |-> FALSE, w |-> 34, f |-> 90]],
     [code |-> "TLS", kind |-> "pair", name |-> "Timor-Leste", num |-> [ty |-> "float", neg |-> FALSE, w |-> 28, f |-> 70]],
     [code |-> "TGO", kind |-> "pair", name |-> "Togo", num |-> [ty |-> "float", neg |-> FALSE, w |-> 43, f |-> 10]],
     [code |-> "TTO", kind |-> "pair", name |-> "Trinidad and Tobago", num |-> [ty |-> "float", neg |-> FALSE, w |-> 40, f |-> 30]],
     [code |-> "TUN", kind |-> "pair", name |-> "Tunisia", num |-> [ty |-> "float", neg |-> FALSE, w |-> 32, f |-> 80]],
     [code |-> "TUR", kind |-> "pair", name |-> "Turkey", num |-> [ty |-> "float", neg |-> FALSE, w |-> 41, f |-> 90]],
     [code |-> "TKM", kind |-> "pair", name |-> "Turkmenistan", num |-> [ty |-> "float", neg |-> FALSE, w |-> 40, f |-> 80]],
     [code |-> "UGA", kind |-> "pair", name |-> "Uganda", num |-> [ty |-> "float", neg |-> FALSE, w |-> 42, f |-> 70]],
     [code |-> "UKR", kind |-> "pair", name |-> "Ukraine", num |-> [ty |-> "float", neg |-> FALSE, w |-> 25, f |-> 60]],
     [code |-> "ARE", kind |-> "pair", name |-> "United Arab Emirates", num |-> [ty |-> "float", neg |-> FALSE, w |-> 32, f |-> 50]],
     [code |-> "GBR", kind |-> "pair", name |-> "United Kingdom", num |-> [ty |-> "float", neg |-> FALSE, w |-> 35, f |-> 10]],
     [code |-> "USA", kind |-> "pair", name |-> "United States", num |-> [ty |-> "float", neg |-> FALSE, w |-> 39, f |-> 80]],
     [code |-> "URY", kind |-> "pair", name |-> "Uruguay", num |-> [ty |-> "float", neg |-> FALSE, w |-> 40, f |-> 20]],
     [code |-> "UZB", kind |-> "pair", name |-> "Uzbekistan", num |-> [ty |-> "float", neg |-> FALSE, w |-> 35, f |-> 30]],
     [code |-> "VEN", kind |-> "pair", name |-> "Venezuela", num |-> [ty |-> "float", neg |-> FALSE, w |-> 44, f |-> 80]],
     [code |-> "VNM", kind |-> "pair", name |-> "Vietnam", num |-> [ty |-> "float", neg |-> FALSE, w |-> 36, f |-> 80]],
     [code |-> "YEM", kind |-> "pair", name |-> "Yemen", num |-> [ty |-> "float", neg |-> FALSE, w |-> 36, f |-> 70]],
     [code |-> "ZMB", kind |-> "pair", name |-> "Zambia", num |-> [ty |-> "float", neg |-> FALSE, w |-> 57, f |-> 10]],
     [code |-> "ZWE", kind |-> "pair", name |-> "Zimbabwe", num |-> [ty |-> "float", neg |-> FALSE, w |-> 50, f |-> 30]] >>

\* _GUN_HOMICIDE_FALLBACK (src/src/data_utils.py:379-462), entries in insertion order
_GUN_HOMICIDE_FALLBACK ==
  << [code |-> "AFG", kind |-> "pair", name |-> "Afghanistan", num |-> [ty |-> "float", neg |-> FALSE, w |-> 4, f |-> 70]],
     [code |-> "ALB", kind |-> "pair", name |-> "Albania", num |-> [ty |-> "float", neg |-> FALSE, w |-> 1, f |-> 30]],
     [code |-> "DZA", kind |-> "pair", name |-> "Algeria", num |-> [ty |-> "float", neg |-> FALSE, w |-> 0, f |-> 50]],
     [code |-> "AGO", kind |-> "pair", name |-> "Angola", num |-> [ty |-> "float", neg |-> FALSE, w |-> 4, f |-> 80]],
     [code |-> "ARG", kind |-> "pair", name |-> "Argentina", num |-> [ty |-> "float", neg |-> FALSE, w |-> 2, f |-> 20]],
     [code |-> "ARM", kind |-> "pair", name |-> "Armenia", num |-> [ty |-> "float", neg |-> FALSE, w |-> 0, f |-> 40]],
     [code |-> "AUS", kind |-> "pair", name |-> "Australia", num |-> [ty |-> "float", neg |-> FALSE, w |-> 0, f |-> 15]],
     [code |-> "AUT", kind |-> "pair", name |-> "Austria", num |-> [ty |-> "float", neg |-> FALSE, w |-> 0, f |-> 15]],
     [code |-> "AZE", kind |-> "pair", name |-> "Azerbaijan", num |-> [ty |-> "float", neg |-> FALSE, w |-> 0, f |-> 60]],
     [code |-> "BHS", kind |-> "pair", name |-> "Bahamas", num |-> [ty |-> "float", neg |-> FALSE, w |-> 24, f |-> 50]],
     [code |-> "BHR", kind |-> "pair", name |-> "Bahrain", num |-> [ty |-> "float", neg |-> FALSE, w |-> 0, f |-> 10]],
     [code |-> "BGD", kind |-> "pair", name |-> "Bangladesh", num |-> [ty |-> "float", neg |-> FALSE, w |-> 1, f |-> 10]],
     [code |-> "BRB", kind |-> "pair", name |-> "Barbados", num |-> [ty |-> "float", neg |-> FALSE, w |-> 7, f |-> 40]],
     [code |-> "BLR", kind |-> "pair", name |-> "Belarus", num |-> [ty |-> "float", neg |-> FALSE, w |-> 0, f |-> 20]],
     [code |-> "BEL", kind |-> "pair", name |-> "Belgium", num |-> [ty |-> "float", neg |-> FALSE, w |-> 0, f |-> 30]],
     [code |-> "BLZ", kind |-> "pair", name |-> "Belize", num |-> [ty |-> "float", neg |-> FALSE, w |-> 19, f |-> 40]],
     [code |-> "BEN", kind |-> "pair", name |-> "Benin", num |-> [ty |-> "float", neg |-> FALSE, w |-> 0, f |-> 80]],
     [code |-> "BOL", kind |-> "pair", name |-> "Bolivia", num |-> [ty |-> "float", neg |-> FALSE, w |-> 3, f |-> 0]],
     [code |-> "BIH", kind |-> "pair", name |-> "Bosnia and Herzegovina", num |-> [ty |-> "float", neg |-> FALSE, w |-> 0, f |-> 60]],
     [code |-> "BWA", kind |-> "pair", name |-> "Botswana", num |-> [ty |-> "float", neg |-> FALSE, w |-> 2, f |-> 80]],
     [code |-> "BRA", kind |-> "pair", name |-> "Brazil", num |-> [ty |-> "float", neg |-> FALSE, w |-> 21, f |-> 90]],
     [code |-> "BGR", kind |-> "pair", name |-> "Bulgaria", num |-> [ty |-> "float", neg |-> FALSE, w |-> 0, f |-> 50]],
     [code |-> "BFA", kind |-> "pair", name |-> "Burkina Faso", num |-> [ty |-> "float", neg |-> FALSE, w |-> 1, f |-> 50]],
     [code |-> "BDI", kind |-> "pair", name |-> "Burundi", num |-> [ty |-> "float", neg |-> FALSE, w |-> 2, f |-> 10]],
     [code |-> "KHM", kind |-> "pair", name |-> "Cambodia", num |-> [ty |-> "float", neg |-> FALSE, w |-> 0, f |-> 80]],
     [code |-> "CMR", kind |-> "pair", name |-> "Cameroon", num |-> [ty |-> "float", neg |-> FALSE, w |-> 2, f |-> 90]],
     [code |-> "CAN", kind |-> "pair", name |-> "Canada", num |-> [ty |-> "float", neg |-> FALSE, w |-> 0, f |-> 75]],
     [code |-> "CAF", kind |-> "pair", name |-> "Central African Republic", num |-> [ty |-> "float", neg |-> FALSE, w |-> 6, f |-> 10]],
     [code |-> "TCD", kind |-> "pair", name |-> "Chad", num |-> [ty |-> "float", neg |-> FALSE, w |-> 3, f |-> 20]],
     [code |-> "CHL", kind |-> "pair", name |-> "Chile", num |-> [ty |-> "float", neg |-> FALSE, w |-> 2, f |-> 10]],
     [code |-> "CHN", kind |-> "pair", name |-> "China", num |-> [ty |-> "float", neg |-> FALSE, w |-> 0, f |-> 4]],
     [code |-> "COL", kind |-> "pair", name |-> "Colombia", num |-> [ty |-> "float", neg |-> FALSE, w |-> 13, f |-> 10]],
     [code |-> "COG", kind |-> "pair", name |-> "Congo", num |-> [ty |-> "float", neg |-> FALSE, w |-> 4, f |-> 70]],
     [code |-> "COD", kind |-> "pair", name |-> "DR Congo", num |-> [ty |-> "float", neg |-> FALSE, w |-> 3, f |-> 0]],
     [code |-> "CRI", kind |-> "pair", name |-> "Costa Rica", num |-> [ty |-> "float", neg |-> FALSE, w |-> 6, f |-> 30]],
     [code |-> "CIV", kind |-> "pair", name |-> "Cote d'Ivoire", num |-> [ty |-> "float", neg |-> FALSE, w |-> 1, f |-> 60]],
     [code |-> "HRV", kind |-> "pair", name |-> "Croatia", num |-> [ty |-> "float", neg |-> FALSE, w |-> 0, f |-> 30]],
     [code |-> "CUB", kind |-> "pair", name |-> "Cuba", num |-> [ty |-> "float", neg |-> FALSE, w |-> 2, f |-> 50]],
     [code |-> "CYP", kind |-> "pair", name |-> "Cyprus", num |-> [ty |-> "float", neg |-> FALSE, w |-> 0, f |-> 20]],
     [code |-> "CZE", kind |-> "pair", name |-> "Czech Republic", num |-> [ty |-> "float", neg |-> FALSE, w |-> 0, f |-> 12]],
     [code |-> "DNK", kind |-> "pair", name |-> "Denmark", num |-> [ty |-> "float", neg |-> FALSE, w |-> 0, f |-> 15]],
     [code |-> "DOM", kind |-> "pair", name |-> "Dominican Republic", num |-> [ty |-> "float", neg |-> FALSE, w |-> 11, f |-> 20]],
     [code |-> "ECU", kind |-> "pair", name |-> "Ecuador", num |-> [ty |-> "float", neg |-> FALSE, w |-> 5, f |-> 60]],
     [code |-> "EGY", kind |-> "pair", name |-> "Egypt", num |-> [ty |-> "float", neg |-> FALSE, w |-> 0, f |-> 40]],
     [code |-> "SLV", kind |-> "pair", name |-> "El Salvador", num |-> [ty |-> "float", neg |-> FALSE, w |-> 17, f |-> 50]],
     [code |-> "GNQ", kind |-> "pair", name |-> "Equatorial Guinea", num |-> [ty |-> "float", neg |-> FALSE, w |-> 2, f |-> 10]],
     [code |-> "ERI", kind |-> "pair", name |-> "Eritrea", num |-> [ty |-> "float", neg |-> FALSE, w |-> 2, f |-> 80]],
     [code |-> "EST", kind |-> "pair", name |-> "Estonia", num |-> [ty |-> "float", neg |-> FALSE, w |-> 0, f |-> 30]],
     [code |-> "SWZ", kind |-> "pair", name |-> "Eswatini", num |-> [ty |-> "float", neg |-> FALSE, w |-> 6, f |-> 30]],
     [code |-> "ETH", kind |-> "pair", name |-> "Ethiopia", num |-> [ty |-> "float", neg |-> FALSE, w |-> 3, f |-> 50]],
     [code |-> "FJI", kind |-> "pair", name |-> "Fiji", num |-> [ty |-> "float", neg |-> FALSE, w |-> 0, f |-> 50]],
     [code |-> "FIN", kind |-> "pair", name |-> "Finland", num |-> [ty |-> "float", neg |-> FALSE, w |-> 0, f |-> 20]],
     [code |-> "FRA", kind |-> "pair", name |-> "France", num |-> [ty |-> "float", neg |-> FALSE, w |-> 0, f |-> 30]],
     [code |-> "GAB", kind |-> "pair", name |-> "Gabon", num |-> [ty |-> "float", neg |-> FALSE, w |-> 2, f |-> 40]],
     [code |-> "GEO", kind |-> "pair", name |-> "Georgia", num |-> [ty |-> "float", neg |-> FALSE, w |-> 0, f |-> 80]],
     [code |-> "DEU", kind |-> "pair", name |-> "Germany", num |-> [ty |-> "float", neg |-> FALSE, w |-> 0, f |-> 6]],
     [code |-> "GHA", kind |-> "pair", name |-> "Ghana", num |-> [ty |-> "float", neg |-> FALSE, w |-> 1, f |-> 70]],
     [code |-> "GRC", kind |-> "pair", name |-> "Greece", num |-> [ty |-> "float", neg |-> FALSE, w |-> 0, f |-> 40]],
     [code |-> "GTM", kind |-> "pair", name |-> "Guatemala", num |-> [ty |-> "float", neg |-> FALSE, w |-> 18, f |-> 50]],
     [code |-> "GIN", kind |-> "pair", name |-> "Guinea", num |-> [ty |-> "float", neg |-> FALSE, w |-> 2, f |-> 60]],
     [code |-> "GNB", kind |-> "pair", name |-> "Guinea-Bissau", num |-> [ty |-> "float", neg |-> FALSE, w |-> 3, f |-> 40]],
     [code |-> "GUY", kind |-> "pair", name |-> "Guyana", num |-> [ty |-> "float", neg |-> FALSE, w |-> 7, f |-> 10]],
     [code |-> "HTI", kind |-> "pair", name |-> "Haiti", num |-> [ty |-> "float", neg |-> FALSE, w |-> 12, f |-> 0]],
     [code |-> "HND", kind |-> "pair", name |-> "Honduras", num |-> [ty |-> "float", neg |-> FALSE, w |-> 26, f |-> 70]],
     [code |-> "HUN", kind |-> "pair", name |-> "Hungary", num |-> [ty |-> "float", neg |-> FALSE, w |-> 0, f |-> 12]],
     [code |-> "ISL", kind |-> "pair", name |-> "Iceland", num |-> [ty |-> "float", neg |-> FALSE, w |-> 0, f |-> 0]],
     [code |-> "IND", kind |-> "pair", name |-> "India", num |-> [ty |-> "float", neg |-> FALSE, w |-> 0, f |-> 90]],
     [code |-> "IDN", kind |-> "pair", name |-> "Indonesia", num |-> [ty |-> "float", neg |-> FALSE, w |-> 0, f |-> 10]],
     [code |-> "IRN", kind |-> "pair", name |-> "Iran", num |-> [ty |-> "float", neg |-> FALSE, w |-> 1, f |-> 30]],
     [code |-> "IRQ", kind |-> "pair", name |-> "Iraq", num |-> [ty |-> "float", neg |-> FALSE, w |-> 5, f |-> 20]],
     [code |-> "IRL", kind |-> "pair", name |-> "Ireland", num |-> [ty |-> "float", neg |-> FALSE, w |-> 0, f |-> 20]],
     [code |-> "ISR", kind |-> "pair", name |-> "Israel", num |-> [ty |-> "float", neg |-> FALSE, w |-> 0, f |-> 70]],
     [code |-> "ITA", kind |-> "pair", name |-> "Italy", num |-> [ty |-> "float", neg |-> FALSE, w |-> 0, f |-> 35]],
     [code |-> "JAM", kind |-> "pair", name |-> "Jamaica", num |-> [ty |-> "float", neg |-> FALSE, w |-> 30, f |-> 70]],
     [code |-> "JPN", kind |-> "pair", name |-> "Japan", num |-> [ty |-> "float", neg |-> FALSE, w |-> 0, f |-> 1]],
     [code |-> "JOR", kind |-> "pair", name |-> "Jordan", num |-> [ty |-> "float", neg |-> FALSE, w |-> 0, f |-> 50]],
     [code |-> "KAZ", kind |-> "pair", name |-> "Kazakhstan", num |-> [ty |-> "float", neg |-> FALSE, w |-> 0, f |-> 50]],
     [code |-> "KEN", kind |-> "pair", name |-> "Kenya", num |-> [ty |-> "float", neg |-> FALSE, w |-> 2, f |-> 30]],
     [code |-> "KOR", kind |-> "pair", name |-> "South Korea", num |-> [ty |-> "float", neg |-> FALSE, w |-> 0, f |-> 2]],
     [code |-> "KWT", kind |-> "pair", name |-> "Kuwait", num |-> [ty |-> "float", neg |-> FALSE, w |-> 0, f |-> 40]],
     [code |-> "KGZ", kind |-> "pair", name |-> "Kyrgyzstan", num |-> [ty |-> "float", neg |-> FALSE, w |-> 1, f |-> 20]],
     [code |-> "LVA", kind |-> "pair", name |-> "Latvia", num |-> [ty |-> "float", neg |-> FALSE, w |-> 0, f |-> 50]],
     [code |-> "LBN", kind |-> "pair", name |-> "Lebanon", num |-> [ty |-> "float", neg |-> FALSE, w |-> 3, f |-> 0]],
     [code |-> "LSO", kind |-> "pair", name |-> "Lesotho", num |-> [ty |-> "float", neg |-> FALSE, w |-> 3, f |-> 10]],
     [code |-> "LBR", kind |-> "pair", name |-> "Liberia", num |-> [ty |-> "float", neg |-> FALSE, w |-> 3, f |-> 20]],
     [code |-> "LBY", kind |-> "pair", name |-> "Libya", num |-> [ty |-> "float", neg |-> FALSE, w |-> 4, f |-> 50]],
     [code |-> "LTU", kind |-> "pair", name |-> "Lithuania", num |-> [ty |-> "float", neg |-> FALSE, w |-> 0, f |-> 40]],
     [code |-> "LUX", kind |-> "pair", name |-> "Luxembourg", num |-> [ty |-> "float", neg |-> FALSE, w |-> 0, f |-> 10]],
     [code |-> "MDG", kind |-> "pair", name |-> "Madagascar", num |-> [ty |-> "float", neg |-> FALSE, w |-> 1, f |-> 40]],
     [code |-> "MWI", kind |-> "pair", name |-> "Malawi", num |-> [ty |-> "float", neg |-> FALSE, w |-> 1, f |-> 0]],
     [code |-> "MYS", kind |-> "pair", name |-> "Malaysia", num |-> [ty |-> "float", neg |-> FALSE, w |-> 0, f |-> 30]],
     [code |-> "MLI", kind |-> "pair", name |-> "Mali", num |-> [ty |-> "float", neg |-> FALSE, w |-> 3, f |-> 50]],
     [code |-> "MLT", kind |-> "pair", name |-> "Malta", num |-> [ty |-> "float", neg |-> FALSE, w |-> 0, f |-> 30]],
     [code |-> "MRT", kind |-> "pair", name |-> "Mauritania", num |-> [ty |-> "float", neg |-> FALSE, w |-> 1, f |-> 20]],
     [code |-> "MUS", kind |-> "pair", name |-> "Mauritius", num |-> [ty |-> "float", neg |-> FALSE, w |-> 0, f |-> 40]],
     [code |-> "MEX", kind |-> "pair", name |-> "Mexico", num |-> [ty |-> "float", neg |-> FALSE, w |-> 16, f |-> 30]],
     [code |-> "MDA", kind |-> "pair", name |-> "Moldova", num |-> [ty |-> "float", neg |-> FALSE, w |-> 0, f |-> 50]],
     [code |-> "MNG", kind |-> "pair", name |-> "Mongolia", num |-> [ty |-> "float", neg |-> FALSE, w |-> 0, f |-> 60]],
     [code |-> "MNE", kind |-> "pair", name |-> "Montenegro", num |-> [ty |-> "float", neg |-> FALSE, w |-> 1, f |-> 40]],
     [code |-> "MAR", kind |-> "pair", name |-> "Morocco", num |-> [ty |-> "float", neg |-> FALSE, w |-> 0, f |-> 30]],
     [code |-> "MOZ", kind |-> "pair", name |-> "Mozambique", num |-> [ty |-> "float", neg |-> FALSE, w |-> 3, f |-> 0]],
     [code |-> "MMR", kind |-> "pair", name |-> "Myanmar", num |-> [ty |-> "float", neg |-> FALSE, w |-> 2, f |-> 30]],
     [code |-> "NAM", kind |-> "pair", name |-> "Namibia", num |-> [ty |-> "float", neg |-> FALSE, w |-> 5, f |-> 20]],
     [code |-> "NPL", kind |-> "pair", name |-> "Nepal", num |-> [ty |-> "float", neg |-> FALSE, w |-> 0, f |-> 90]],
     [code |-> "NLD", kind |-> "pair", name |-> "Netherlands", num |-> [ty |-> "float", neg |-> FALSE, w |-> 0, f |-> 20]],
     [code |-> "NZL", kind |-> "pair", name |-> "New Zealand", num |-> [ty |-> "float", neg |-> FALSE, w |-> 0, f |-> 18]],
     [code |-> "NIC", kind |-> "pair", name |-> "Nicaragua", num |-> [ty |-> "float", neg |-> FALSE, w |-> 5, f |-> 30]],
     [code |-> "NER", kind |-> "pair", name |-> "Niger", num |-> [ty |-> "float", neg |-> FALSE, w |-> 1, f |-> 70]],
     [code |-> "NGA", kind |-> "pair", name |-> "Nigeria", num |-> [ty |-> "float", neg |-> FALSE, w |-> 3, f |-> 20]],
     [code |-> "NOR", kind |-> "pair", name |-> "Norway", num |-> [ty |-> "float", neg |-> FALSE, w |-> 0, f |-> 10]],
     [code |-> "OMN", kind |-> "pair", name |-> "Oman", num |-> [ty |-> "float", neg |-> FALSE, w |-> 0, f |-> 20]],
     [code |-> "PAK", kind |-> "pair", name |-> "Pakistan", num |-> [ty |-> "float", neg |-> FALSE, w |-> 3, f |-> 0]],
     [code |-> "PAN", kind |-> "pair", name |-> "Panama", num |-> [ty |-> "float", neg |-> FALSE, w |-> 7, f |-> 80]],
     [code |-> "PNG", kind |-> "pair", name |-> "Papua New Guinea", num |-> [ty |-> "float", neg |-> FALSE, w |-> 5, f |-> 60]],
     [code |-> "PRY", kind |-> "pair", name |-> "Paraguay", num |-> [ty |-> "float", neg |-> FALSE, w |-> 5, f |-> 50]],
     [code |-> "PER", kind |-> "pair", name |-> "Peru", num |-> [ty |-> "float", neg |-> FALSE, w |-> 3, f |-> 70]],
     [code |-> "PHL", kind |-> "pair", name |-> "Philippines", num |-> [ty |-> "float", neg |-> FALSE, w |-> 5, f |-> 40]],
     [code |-> "POL", kind |-> "pair", name |-> "Poland", num |-> [ty |-> "float", neg |-> FALSE, w |-> 0, f |-> 8]],
     [code |-> "PRT", kind |-> "pair", name |-> "Portugal", num |-> [ty |-> "float", neg |-> FALSE, w |-> 0, f |-> 30]],
     [code |-> "QAT", kind |-> "pair", name |-> "Qatar", num |-> [ty |-> "float", neg |-> FALSE, w |-> 0, f |-> 10]],
     [code |-> "ROU", kind |-> "pair", name |-> "Romania", num |-> [ty |-> "float", neg |-> FALSE, w |-> 0, f |-> 10]],
     [code |-> "RUS", kind |-> "pair", name |-> "Russia", num |-> [ty |-> "float", neg |-> FALSE, w |-> 2, f |-> 70]],
     [code |-> "RWA", kind |-> "pair", name |-> "Rwanda", num |-> [ty |-> "float", neg |-> FALSE, w |-> 1, f |-> 10]],
     [code |-> "SAU", kind |-> "pair", name |-> "Saudi Arabia", num |-> [ty |-> "float", neg |-> FALSE, w |-> 0, f |-> 60]],
     [code |-> "SEN", kind |-> "pair", name |-> "Senegal", num |-> [ty |-> "float", neg |-> FALSE, w |-> 1, f |-> 40]],
     [code |-> "SRB", kind |-> "pair", name |-> "Serbia", num |-> [ty |-> "float", neg |-> FALSE, w |-> 0, f |-> 50]],
     [code |-> "SLE", kind |-> "pair", name |-> "Sierra Leone", num |-> [ty |-> "float", neg |-> FALSE, w |-> 1, f |-> 80]],
     [code |-> "SGP", kind |-> "pair", name |-> "Singapore", num |-> [ty |-> "float", neg |-> FALSE, w |-> 0, f |-> 2]],
     [code |-> "SVK", kind |-> "pair", name |-> "Slovakia", num |-> [ty |-> "float", neg |-> FALSE, w |-> 0, f |-> 20]],
     [code |-> "SVN", kind |-> "pair", name |-> "Slovenia", num |-> [ty |-> "float", neg |-> FALSE, w |-> 0, f |-> 10]],
     [code |-> "SOM", kind |-> "pair", name |-> "Somalia", num |-> [ty |-> "float", neg |-> FALSE, w |-> 5, f |-> 60]],
     [code |-> "ZAF", kind |-> "pair", name |-> "South Africa", num |-> [ty |-> "float", neg |-> FALSE, w |-> 10, f |-> 20]],
     [code |-> "SSD", kind |-> "pair", name |-> "South Sudan", num |-> [ty |-> "float", neg |-> FALSE, w |-> 6, f |-> 50]],
     [code |-> "ESP", kind |-> "pair", name |-> "Spain", num |-> [ty |-> "float", neg |-> FALSE, w |-> 0, f |-> 12]],
     [code |-> "LKA", kind |-> "pair", name |-> "Sri Lanka", num |-> [ty |-> "float", neg |-> FALSE, w |-> 1, f |-> 40]],
     [code |-> "SDN", kind |-> "pair", name |-> "Sudan", num |-> [ty |-> "float", neg |-> FALSE, w |-> 5, f |-> 10]],
     [code |-> "SUR", kind |-> "pair", name |-> "Suriname", num |-> [ty |-> "float", neg |-> FALSE, w |-> 5, f |-> 10]],
     [code |-> "SWE", kind |-> "pair", name |-> "Sweden", num |-> [ty |-> "float", neg |-> FALSE, w |-> 0, f |-> 40]],
     [code |-> "CHE", kind |-> "pair", name |-> "Switzerland", num |-> [ty |-> "float", neg |-> FALSE, w |-> 0, f |-> 15]],
     [code |-> "SYR", kind |-> "pair", name |-> "Syria", num |-> [ty |-> "float", neg |-> FALSE, w |-> 3, f |-> 0]],
     [code |-> "TJK", kind |-> "pair", name |-> "Tajikistan", num |-> [ty |-> "float", neg |-> FALSE, w |-> 0, f |-> 50]],
     [code |-> "TZA", kind |-> "pair", name |-> "Tanzania", num |-> [ty |-> "float", neg |-> FALSE, w |-> 2, f |-> 30]],
     [code |-> "THA", kind |-> "pair", name |-> "Thailand", num |-> [ty |-> "float", neg |-> FALSE, w |-> 2, f |-> 50]],
     [code |-> "TLS", kind |-> "pair", name |-> "Timor-Leste", num |-> [ty |-> "float", neg |-> FALSE, w |-> 1, f |-> 0]],
     [code |-> "TGO", kind |-> "pair", name |-> "Togo", num |-> [ty |-> "float", neg |-> FALSE, w |-> 2, f |-> 30]],
     [code |-> "TTO", kind |-> "pair", name |-> "Trinidad and Tobago", num |-> [ty |-> "float", neg |-> FALSE, w |-> 20, f |-> 30]],
     [code |-> "TUN", kind |-> "pair", name |-> "Tunisia", num |-> [ty |-> "float", neg |-> FALSE, w |-> 0, f |-> 30]],
     [code |-> "TUR", kind |-> "pair", name |-> "Turkey", num |-> [ty |-> "float", neg |-> FALSE, w |-> 1, f |-> 80]],
     [code |-> "TKM", kind |-> "pair", name |-> "Turkmenistan", num |-> [ty |-> "float", neg |-> FALSE, w |-> 1, f |-> 0]],
     [code |-> "UGA", kind |-> "pair", name |-> "Uganda", num |-> [ty |-> "float", neg |-> FALSE, w |-> 3, f |-> 30]],
     [code |-> "UKR", kind |-> "pair", name |-> "Ukraine", num |-> [ty |-> "float", neg |-> FALSE, w |-> 1, f |-> 60]],
     [code |-> "ARE", kind |-> "pair", name |-> "United Arab Emirates", num |-> [ty |-> "float", neg |-> FALSE, w |-> 0, f |-> 30]],
     [code |-> "GBR", kind |-> "pair", name |-> "United Kingdom", num |-> [ty |-> "float", neg |-> FALSE, w |-> 0, f |-> 4]],
     [code |-> "USA", kind |-> "pair", name |-> "United States", num |-> [ty |-> "float", neg |-> FALSE, w |-> 4, f |-> 46]],
     [code |-> "URY", kind |-> "pair", name |-> "Uruguay", num |-> [ty |-> "float", neg |-> FALSE, w |-> 3, f |-> 50]],
     [code |-> "UZB", kind |-> "pair", name |-> "Uzbekistan", num |-> [ty |-> "float", neg |-> FALSE, w |-> 0, f |-> 50]],
     [code |-> "VEN", kind |-> "pair", name |-> "Venezuela", num |-> [ty |-> "float", neg |-> FALSE, w |-> 33, f |-> 30]],
     [code |-> "VNM", kind |-> "pair", name |-> "Vietnam", num |-> [ty |-> "float", neg |-> FALSE, w |-> 0, f |-> 50]],
     [code |-> "YEM", kind |-> "pair", name |-> "Yemen", num |-> [ty |-> "float", neg |-> FALSE, w |-> 4, f |-> 80]],
     [code |-> "ZMB", kind |-> "pair", name |-> "Zambia", num |-> [ty |-> "float", neg |-> FALSE, w |-> 2, f |-> 80]],
     [code |-> "ZWE", kind |-> "pair", name |-> "Zimbabwe", num |-> [ty |-> "float", neg |-> FALSE, w |-> 2, f |-> 50]] >>

\* _DRUG_OFFENSE_FALLBACK (src/src/data_utils.py:466-530), entries in insertion order
_DRUG_OFFENSE_FALLBACK ==
  << [code |-> "ALB", kind |-> "pair", name |-> "Albania", num |-> [ty |-> "float", neg |-> FALSE, w |-> 45, f |-> 0]],
     [code |-> "DZA", kind |-> "pair", name |-> "Algeria", num |-> [ty |-> "float", neg |-> FALSE, w |-> 85, f |-> 0]],
     [code |-> "ARG", kind |-> "pair", name |-> "Argentina", num |-> [ty |-> "float", neg |-> FALSE, w |-> 102, f |-> 0]],
     [code |-> "ARM", kind |-> "pair", name |-> "Armenia", num |-> [ty |-> "float", neg |-> FALSE, w |-> 38, f |-> 0]],
     [code |-> "AUS", kind |-> "pair", name |-> "Australia", num |-> [ty |-> "float", neg |-> FALSE, w |-> 605, f |-> 0]],
     [code |-> "AUT", kind |-> "pair", name |-> "Austria", num |-> [ty |-> "float", neg |-> FALSE, w |-> 340, f |-> 0]],
     [code |-> "AZE", kind |-> "pair", name |-> "Azerbaijan", num |-> [ty |-> "float", neg |-> FALSE, w |-> 42, f |-> 0]],
     [code |-> "BHS", kind |-> "pair", name |-> "Bahamas", num |-> [ty |-> "float", neg |-> FALSE, w |-> 310, f |-> 0]],
     [code |-> "BGD", kind |-> "pair", name |-> "Bangladesh", num |-> [ty |-> "float", neg |-> FALSE, w |-> 72, f |-> 0]],
     [code |-> "BLR", kind |-> "pair", name |-> "Belarus", num |-> [ty |-> "float", neg |-> FALSE, w |-> 120, f |-> 0]],
     [code |-> "BEL", kind |-> "pair", name |-> "Belgium", num |-> [ty |-> "float", neg |-> FALSE, w |-> 340, f |-> 0]],
     [code |-> "BLZ", kind |-> "pair", name |-> "Belize", num |-> [ty |-> "float", neg |-> FALSE, w |-> 195, f |-> 0]],
     [code |-> "BEN", kind |-> "pair", name |-> "Benin", num |-> [ty |-> "float", neg |-> FALSE, w |-> 12, f |-> 0]],
     [code |-> "BOL", kind |-> "pair", name |-> "Bolivia", num |-> [ty |-> "float", neg |-> FALSE, w |-> 65, f |-> 0]],
     [code |-> "BIH", kind |-> "pair", name |-> "Bosnia and Herzegovina", num |-> [ty |-> "float", neg |-> FALSE, w |-> 75, f |-> 0]],
     [code |-> "BWA", kind |-> "pair", name |-> "Botswana", num |-> [ty |-> "float", neg |-> FALSE, w |-> 210, f |-> 0]],
     [code |-> "BRA", kind |-> "pair", name |-> "Brazil", num |-> [ty |-> "float", neg |-> FALSE, w |-> 155, f |-> 0]],
     [code |-> "BGR", kind |-> "pair", name |-> "Bulgaria", num |-> [ty |-> "float", neg |-> FALSE, w |-> 105, f |-> 0]],
     [code |-> "BFA", kind |-> "pair", name |-> "Burkina Faso", num |-> [ty |-> "float", neg |-> FALSE, w |-> 8, f |-> 0]],
     [code |-> "KHM", kind |-> "pair", name |-> "Cambodia", num |-> [ty |-> "float", neg |-> FALSE, w |-> 48, f |-> 0]],
     [code |-> "CMR", kind |-> "pair", name |-> "Cameroon", num |-> [ty |-> "float", neg |-> FALSE, w |-> 15, f |-> 0]],
     [code |-> "CAN", kind |-> "pair", name |-> "Canada", num |-> [ty |-> "float", neg |-> FALSE, w |-> 280, f |-> 0]],
     [code |-> "CHL", kind |-> "pair", name |-> "Chile", num |-> [ty |-> "float", neg |-> FALSE, w |-> 210, f |-> 0]],
     [code |-> "CHN", kind |-> "pair", name |-> "China", num |-> [ty |-> "float", neg |-> FALSE, w |-> 35, f |-> 0]],
     [code |-> "COL", kind |-> "pair", name |-> "Colombia", num |-> [ty |-> "float", neg |-> FALSE, w |-> 120, f |-> 0]],
     [code |-> "CRI", kind |-> "pair", name |-> "Costa Rica", num |-> [ty |-> "float", neg |-> FALSE, w |-> 105, f |-> 0]],
     [code |-> "HRV", kind |-> "pair", name |-> "Croatia", num |-> [ty |-> "float", neg |-> FALSE, w |-> 165, f |-> 0]],
     [code |-> "CYP", kind |-> "pair", name |-> "Cyprus", num |-> [ty |-> "float", neg |-> FALSE, w |-> 185, f |-> 0]],
     [code |-> "CZE", kind |-> "pair", name |-> "Czech Republic", num |-> [ty |-> "float", neg |-> FALSE, w |-> 85, f |-> 0]],
     [code |-> "DNK", kind |-> "pair", name |-> "Denmark", num |-> [ty |-> "float", neg |-> FALSE, w |-> 380, f |-> 0]],
     [code |-> "DOM", kind |-> "pair", name |-> "Dominican Republic", num |-> [ty |-> "float", neg |-> FALSE, w |-> 52, f |-> 0]],
     [code |-> "ECU", kind |-> "pair", name |-> "Ecuador", num |-> [ty |-> "float", neg |-> FALSE, w |-> 68, f |-> 0]],
     [code |-> "EGY", kind |-> "pair", name |-> "Egypt", num |-> [ty |-> "float", neg |-> FALSE, w |-> 35, f |-> 0]],
     [code |-> "SLV", kind |-> "pair", name |-> "El Salvador", num |-> [ty |-> "float", neg |-> FALSE, w |-> 42, f |-> 0]],
     [code |-> "EST", kind |-> "pair", name |-> "Estonia", num |-> [ty |-> "float", neg |-> FALSE, w |-> 185, f |-> 0]],
     [code |-> "ETH", kind |-> "pair", name |-> "Ethiopia", num |-> [ty |-> "float", neg |-> FALSE, w |-> 15, f |-> 0]],
     [code |-> "FIN", kind |-> "pair", name |-> "Finland", num |-> [ty |-> "float", neg |-> FALSE, w |-> 420, f |-> 0]],
     [code |-> "FRA", kind |-> "pair", name |-> "France", num |-> [ty |-> "float", neg |-> FALSE, w |-> 290, f |-> 0]],
     [code |-> "GEO", kind |-> "pair", name |-> "Georgia", num |-> [ty |-> "float", neg |-> FALSE, w |-> 125, f |-> 0]],
     [code |-> "DEU", kind |-> "pair", name |-> "Germany", num |-> [ty |-> "float", neg |-> FALSE, w |-> 325, f |-> 0]],
     [code |-> "GHA", kind |-> "pair", name |-> "Ghana", num |-> [ty |-> "float", neg |-> FALSE, w |-> 28, f |-> 0]],
     [code |-> "GRC", kind |-> "pair", name |-> "Greece", num |-> [ty |-> "float", neg |-> FALSE, w |-> 125, f |-> 0]],
     [code |-> "GTM", kind |-> "pair", name |-> "Guatemala", num |-> [ty |-> "float", neg |-> FALSE, w |-> 35, f |-> 0]],
     [code |-> "GUY", kind |-> "pair", name |-> "Guyana", num |-> [ty |-> "float", neg |-> FALSE, w |-> 78, f |-> 0]],
     [code |-> "HND", kind |-> "pair", name |-> "Honduras", num |-> [ty |-> "float", neg |-> FALSE, w |-> 38, f |-> 0]],
     [code |-> "HUN", kind |-> "pair", name |-> "Hungary", num |-> [ty |-> "float", neg |-> FALSE, w |-> 55, f |-> 0]],
     [code |-> "ISL", kind |-> "pair", name |-> "Iceland", num |-> [ty |-> "float", neg |-> FALSE, w |-> 310, f |-> 0]],
     [code |-> "IND", kind |-> "pair", name |-> "India", num |-> [ty |-> "float", neg |-> FALSE, w |-> 18, f |-> 0]],
     [code |-> "IDN", kind |-> "pair", name |-> "Indonesia", num |-> [ty |-> "float", neg |-> FALSE, w |-> 38, f |-> 0]],
     [code |-> "IRN", kind |-> "pair", name |-> "Iran", num |-> [ty |-> "float", neg |-> FALSE, w |-> 450, f |-> 0]],
     [code |-> "IRQ", kind |-> "pair", name |-> "Iraq", num |-> [ty |-> "float", neg |-> FALSE, w |-> 22, f |-> 0]],
     [code |-> "IRL", kind |-> "pair", name |-> "Ireland", num |-> [ty |-> "float", neg |-> FALSE, w |-> 290, f |-> 0]],
     [code |-> "ISR", kind |-> "pair", name |-> "Israel", num |-> [ty |-> "float", neg |-> FALSE, w |-> 210, f |-> 0]],
     [code |-> "ITA", kind |-> "pair", name |-> "Italy", num |-> [ty |-> "float", neg |-> FALSE, w |-> 165, f |-> 0]],
     [code |-> "JAM", kind |-> "pair", name |-> "Jamaica", num |-> [ty |-> "float", neg |-> FALSE, w |-> 135, f |-> 0]],
     [code |-> "JPN", kind |-> "pair", name |-> "Japan", num |-> [ty |-> "float", neg |-> FALSE, w |-> 22, f |-> 0]],
     [code |-> "JOR", kind |-> "pair", name |-> "Jordan", num |-> [ty |-> "float", neg |-> FALSE, w |-> 42, f |-> 0]],
     [code |-> "KAZ", kind |-> "pair", name |-> "Kazakhstan", num |-> [ty |-> "float", neg |-> FALSE, w |-> 82, f |-> 0]],
     [code |-> "KEN", kind |-> "pair", name |-> "Kenya", num |-> [ty |-> "float", neg |-> FALSE, w |-> 48, f |-> 0]],
     [code |-> "KOR", kind |-> "pair", name |-> "South Korea", num |-> [ty |-> "float", neg |-> FALSE, w |-> 52, f |-> 0]],
     [code |-> "KWT", kind |-> "pair", name |-> "Kuwait", num |-> [ty |-> "float", neg |-> FALSE, w |-> 32, f |-> 0]],
     [code |-> "KGZ", kind |-> "pair", name |-> "Kyrgyzstan", num |-> [ty |-> "float", neg |-> FALSE, w |-> 55, f |-> 0]],
     [code |-> "LVA", kind |-> "pair", name |-> "Latvia", num |-> [ty |-> "float", neg |-> FALSE, w |-> 85, f |-> 0]],
     [code |-> "LBN", kind |-> "pair", name |-> "Lebanon", num |-> [ty |-> "float", neg |-> FALSE, w |-> 95, f |-> 0]],
     [code |-> "LTU", kind |-> "pair", name |-> "Lithuania", num |-> [ty |-> "float", neg |-> FALSE, w |-> 95, f |-> 0]],
     [code |-> "LUX", kind |-> "pair", name |-> "Luxembourg", num |-> [ty |-> "float", neg |-> FALSE, w |-> 385, f |-> 0]],
     [code |-> "MYS", kind |-> "pair", name |-> "Malaysia", num |-> [ty |-> "float", neg |-> FALSE, w |-> 115, f |-> 0]],
     [code |-> "MLI", kind |-> "pair", name |-> "Mali", num |-> [ty |-> "float", neg |-> FALSE, w |-> 10, f |-> 0]],
     [code |-> "MLT", kind |-> "pair", name |-> "Malta", num |-> [ty |-> "float", neg |-> FALSE, w |-> 155, f |-> 0]],
     [code |-> "MUS", kind |-> "pair", name |-> "Mauritius", num |-> [ty |-> "float", neg |-> FALSE, w |-> 145, f |-> 0]],
     [code |-> "MEX", kind |-> "pair", name |-> "Mexico", num |-> [ty |-> "float", neg |-> FALSE, w |-> 55, f |-> 0]],
     [code |-> "MDA", kind |-> "pair", name |-> "Moldova", num |-> [ty |-> "float", neg |-> FALSE, w |-> 65, f |-> 0]],
     [code |-> "MNG", kind |-> "pair", name |-> "Mongolia", num |-> [ty |-> "float", neg |-> FALSE, w |-> 42, f |-> 0]],
     [code |-> "MNE", kind |-> "pair", name |-> "Montenegro", num |-> [ty |-> "float", neg |-> FALSE, w |-> 115, f |-> 0]],
     [code |-> "MAR", kind |-> "pair", name |-> "Morocco", num |-> [ty |-> "float", neg |-> FALSE, w |-> 85, f |-> 0]],
     [code |-> "MOZ", kind |-> "pair", name |-> "Mozambique", num |-> [ty |-> "float", neg |-> FALSE, w |-> 18, f |-> 0]],
     [code |-> "MMR", kind |-> "pair", name |-> "Myanmar", num |-> [ty |-> "float", neg |-> FALSE, w |-> 175, f |-> 0]],
     [code |-> "NAM", kind |-> "pair", name |-> "Namibia", num |-> [ty |-> "float", neg |-> FALSE, w |-> 110, f |-> 0]],
     [code |-> "NPL", kind |-> "pair", name |-> "Nepal", num |-> [ty |-> "float", neg |-> FALSE, w |-> 22, f |-> 0]],
     [code |-> "NLD", kind |-> "pair", name |-> "Netherlands", num |-> [ty |-> "float", neg |-> FALSE, w |-> 165, f |-> 0]],
     [code |-> "NZL", kind |-> "pair", name |-> "New Zealand", num |-> [ty |-> "float", neg |-> FALSE, w |-> 455, f |-> 0]],
     [code |-> "NIC", kind |-> "pair", name |-> "Nicaragua", num |-> [ty |-> "float", neg |-> FALSE, w |-> 32, f |-> 0]],
     [code |-> "NGA", kind |-> "pair", name |-> "Nigeria", num |-> [ty |-> "float", neg |-> FALSE, w |-> 20, f |-> 0]],
     [code |-> "NOR", kind |-> "pair", name |-> "Norway", num |-> [ty |-> "float", neg |-> FALSE, w |-> 420, f |-> 0]],
     [code |-> "PAK", kind |-> "pair", name |-> "Pakistan", num |-> [ty |-> "float", neg |-> FALSE, w |-> 55, f |-> 0]],
     [code |-> "PAN", kind |-> "pair", name |-> "Panama", num |-> [ty |-> "float", neg |-> FALSE, w |-> 85, f |-> 0]],
     [code |-> "PRY", kind |-> "pair", name |-> "Paraguay", num |-> [ty |-> "float", neg |-> FALSE, w |-> 48, f |-> 0]],
     [code |-> "PER", kind |-> "pair", name |-> "Peru", num |-> [ty |-> "float", neg |-> FALSE, w |-> 72, f |-> 0]],
     [code |-> "PHL", kind |-> "pair", name |-> "Philippines", num |-> [ty |-> "float", neg |-> FALSE, w |-> 180, f |-> 0]],
     [code |-> "POL", kind |-> "pair", name |-> "Poland", num |-> [ty |-> "float", neg |-> FALSE, w |-> 85, f |-> 0]],
     [code |-> "PRT", kind |-> "pair", name |-> "Portugal", num |-> [ty |-> "float", neg |-> FALSE, w |-> 155, f |-> 0]],
     [code |-> "QAT", kind |-> "pair", name |-> "Qatar", num |-> [ty |-> "float", neg |-> FALSE, w |-> 28, f |-> 0]],
     [code |-> "ROU", kind |-> "pair", name |-> "Romania", num |-> [ty |-> "float", neg |-> FALSE, w |-> 35, f |-> 0]],
     [code |-> "RUS", kind |-> "pair", name |-> "Russia", num |-> [ty |-> "float", neg |-> FALSE, w |-> 155, f |-> 0]],
     [code |-> "SAU", kind |-> "pair", name |-> "Saudi Arabia", num |-> [ty |-> "float", neg |-> FALSE, w |-> 42, f |-> 0]],
     [code |-> "SEN", kind |-> "pair", name |-> "Senegal", num |-> [ty |-> "float", neg |-> FALSE, w |-> 22, f |-> 0]],
     [code |-> "SRB", kind |-> "pair", name |-> "Serbia", num |-> [ty |-> "float", neg |-> FALSE, w |-> 95, f |-> 0]],
     [code |-> "SGP", kind |-> "pair", name |-> "Singapore", num |-> [ty |-> "float", neg |-> FALSE, w |-> 45, f |-> 0]],
     [code |-> "SVK", kind |-> "pair", name |-> "Slovakia", num |-> [ty |-> "float", neg |-> FALSE, w |-> 48, f |-> 0]],
     [code |-> "SVN", kind |-> "pair", name |-> "Slovenia", num |-> [ty |-> "float", neg |-> FALSE, w |-> 135, f |-> 0]],
     [code |-> "ZAF", kind |-> "pair", name |-> "South Africa", num |-> [ty |-> "float", neg |-> FALSE, w |-> 195, f |-> 0]],
     [code |-> "ESP", kind |-> "pair", name |-> "Spain", num |-> [ty |-> "float", neg |-> FALSE, w |-> 145, f |-> 0]],
     [code |-> "LKA", kind |-> "pair", name |-> "Sri Lanka", num |-> [ty |-> "float", neg |-> FALSE, w |-> 185, f |-> 0]],
     [code |-> "SUR", kind |-> "pair", name |-> "Suriname", num |-> [ty |-> "float", neg |-> FALSE, w |-> 55, f |-> 0]],
     [code |-> "SWE", kind |-> "pair", name |-> "Sweden", num |-> [ty |-> "float", neg |-> FALSE, w |-> 395, f |-> 0]],
     [code |-> "CHE", kind |-> "pair", name |-> "Switzerland", num |-> [ty |-> "float", neg |-> FALSE, w |-> 470, f |-> 0]],
     [code |-> "THA", kind |-> "pair", name |-> "Thailand", num |-> [ty |-> "float", neg |-> FALSE, w |-> 345, f |-> 0]],
     [code |-> "TTO", kind |-> "pair", name |-> "Trinidad and Tobago", num |-> [ty |-> "float", neg |-> FALSE, w |-> 155, f |-> 0]],
     [code |-> "TUN", kind |-> "pair", name |-> "Tunisia", num |-> [ty |-> "float", neg |-> FALSE, w |-> 35, f |-> 0]],
     [code |-> "TUR", kind |-> "pair", name |-> "Turkey", num |-> [ty |-> "float", neg |-> FALSE, w |-> 185, f |-> 0]],
     [code |-> "UGA", kind |-> "pair", name |-> "Uganda", num |-> [ty |-> "float", neg |-> FALSE, w |-> 30, f |-> 0]],
     [code |-> "UKR", kind |-> "pair", name |-> "Ukraine", num |-> [ty |-> "float", neg |-> FALSE, w |-> 48, f |-> 0]],
     [code |-> "ARE", kind |-> "pair", name |-> "United Arab Emirates", num |-> [ty |-> "float", neg |-> FALSE, w |-> 72, f |-> 0]],
     [code |-> "GBR", kind |-> "pair", name |-> "United Kingdom", num |-> [ty |-> "float", neg |-> FALSE, w |-> 185, f |-> 0]],
     [code |-> "USA", kind |-> "pair", name |-> "United States", num |-> [ty |-> "float", neg |-> FALSE, w |-> 585, f |-> 0]],
     [code |-> "URY", kind |-> "pair", name |-> "Uruguay", num |-> [ty |-> "float", neg |-> FALSE, w |-> 115, f |-> 0]],
     [code |-> "UZB", kind |-> "pair", name |-> "Uzbekistan", num |-> [ty |-> "float", neg |-> FALSE, w |-> 32, f |-> 0]],
     [code |-> "VEN", kind |-> "pair", name |-> "Venezuela", num |-> [ty |-> "float", neg |-> FALSE, w |-> 42, f |-> 0]],
     [code |-> "VNM", kind |-> "pair", name |-> "Vietnam", num |-> [ty |-> "float", neg |-> FALSE, w |-> 28, f |-> 0]],
     [code |-> "ZMB", kind |-> "pair", name |-> "Zambia", num |-> [ty |-> "float", neg |-> FALSE, w |-> 32, f |-> 0]],
     [code |-> "ZWE", kind |-> "pair", name |-> "Zimbabwe", num |-> [ty |-> "float", neg |-> FALSE, w |-> 45, f |-> 0]] >>

\* _COUNTRY_REGIONS (src/src/data_utils.py:533-621), entries in insertion order
_COUNTRY_REGIONS ==
  << [code |-> "USA", kind |-> "str", str |-> "North America"],
     [code |-> "CAN", kind |-> "str", str |-> "North America"],
     [code |-> "MEX", kind |-> "str", str |-> "North America"],
     [code |-> "GTM", kind |-> "str", str |-> "Central America & Caribbean"],
     [code |-> "BLZ", kind |-> "str", str |-> "Central America & Caribbean"],
     [code |-> "HND", kind |-> "str", str |-> "Central America & Caribbean"],
     [code |-> "SLV", kind |-> "str", str |-> "Central America & Caribbean"],
     [code |-> "NIC", kind |-> "str", str |-> "Central America & Caribbean"],
     [code |-> "CRI", kind |-> "str", str |-> "Central America & Caribbean"],
     [code |-> "PAN", kind |-> "str", str |-> "Central America & Caribbean"],
     [code |-> "CUB", kind |-> "str", str |-> "Central America & Caribbean"],
     [code |-> "JAM", kind |-> "str", str |-> "Central America & Caribbean"],
     [code |-> "HTI", kind |-> "str", str |-> "Central America & Caribbean"],
     [code |-> "DOM", kind |-> "str", str |-> "Central America & Caribbean"],
     [code |-> "TTO", kind |-> "str", str |-> "Central America & Caribbean"],
     [code |-> "BHS", kind |-> "str", str |-> "Central America & Caribbean"],
     [code |-> "BRB", kind |-> "str", str |-> "Central America & Caribbean"],
     [code |-> "BRA", kind |-> "str", str |-> "South America"],
     [code |-> "ARG", kind |-> "str", str |-> "South America"],
     [code |-> "COL", kind |-> "str", str |-> "South America"],
     [code |-> "VEN", kind |-> "str", str |-> "South America"],
     [code |-> "PER", kind |-> "str", str |-> "South America"],
     [code |-> "CHL", kind |-> "str", str |-> "South America"],
     [code |-> "ECU", kind |-> "str", str |-> "South America"],
     [code |-> "BOL", kind |-> "str", str |-> "South America"],
     [code |-> "PRY", kind |-> "str", str |-> "South America"],
     [code |-> "URY", kind |-> "str", str |-> "South America"],
     [code |-> "GUY", kind |-> "str", str |-> "South America"],
     [code |-> "SUR", kind |-> "str", str |-> "South America"],
     [code |-> "GBR", kind |-> "str", str |-> "Western Europe"],
     [code |-> "FRA", kind |-> "str", str |-> "Western Europe"],
     [code |-> "DEU", kind |-> "str", str |-> "Western Europe"],
     [code |-> "ESP", kind |-> "str", str |-> "Western Europe"],
     [code |-> "ITA", kind |-> "str", str |-> "Western Europe"],
     [code |-> "PRT", kind |-> "str", str |-> "Western Europe"],
     [code |-> "NLD", kind |-> "str", str |-> "Western Europe"],
     [code |-> "BEL", kind |-> "str", str |-> "Western Europe"],
     [code |-> "CHE", kind |-> "str", str |-> "Western Europe"],
     [code |-> "AUT", kind |-> "str", str |-> "Western Europe"],
     [code |-> "IRL", kind |-> "str", str |-> "Western Europe"],
     [code |-> "LUX", kind |-> "str", str |-> "Western Europe"],
     [code |-> "DNK", kind |-> "str", str |-> "Western Europe"],
     [code |-> "NOR", kind |-> "str", str |-> "Western Europe"],
     [code |-> "SWE", kind |-> "str", str |-> "Western Europe"],
     [code |-> "FIN", kind |-> "str", str |-> "Western Europe"],
     [code |-> "ISL", kind |-> "str", str |-> "Western Europe"],
     [code |-> "MLT", kind |-> "str", str |-> "Western Europe"],
     [code |-> "CYP", kind |-> "str", str |-> "Western Europe"],
     [code |-> "GRC", kind |-> "str", str |-> "Western Europe"],
     [code |-> "RUS", kind |-> "str", str |-> "Eastern Europe"],
     [code |-> "UKR", kind |-> "str", str |-> "Eastern Europe"],
     [code |-> "POL", kind |-> "str", str |-> "Eastern Europe"],
     [code |-> "ROU", kind |-> "str", str |-> "Eastern Europe"],
     [code |-> "CZE", kind |-> "str", str |-> "Eastern Europe"],
     [code |-> "HUN", kind |-> "str", str |-> "Eastern Europe"],
     [code |-> "BGR", kind |-> "str", str |-> "Eastern Europe"],
     [code |-> "SRB", kind |-> "str", str |-> "Eastern Europe"],
     [code |-> "HRV", kind |-> "str", str |-> "Eastern Europe"],
     [code |-> "SVK", kind |-> "str", str |-> "Eastern Europe"],
     [code |-> "SVN", kind |-> "str", str |-> "Eastern Europe"],
     [code |-> "BIH", kind |-> "str", str |-> "Eastern Europe"],
     [code |-> "MNE", kind |-> "str", str |-> "Eastern Europe"],
     [code |-> "ALB", kind |-> "str", str |-> "Eastern Europe"],
     [code |-> "MDA", kind |-> "str", str |-> "Eastern Europe"],
     [code |-> "BLR", kind |-> "str", str |-> "Eastern Europe"],
     [code |-> "LTU", kind |-> "str", str |-> "Eastern Europe"],
     [code |-> "LVA", kind |-> "str", str |-> "Eastern Europe"],
     [code |-> "EST", kind |-> "str", str |-> "Eastern Europe"],
     [code |-> "GEO", kind |-> "str", str |-> "Eastern Europe"],
     [code |-> "ARM", kind |-> "str", str |-> "Eastern Europe"],
     [code |-> "AZE", kind |-> "str", str |-> "Eastern Europe"],
     [code |-> "SAU", kind |-> "str", str |-> "Middle East & N. Africa"],
     [code |-> "ARE", kind |-> "str", str |-> "Middle East & N. Africa"],
     [code |-> "ISR", kind |-> "str", str |-> "Middle East & N. Africa"],
     [code |-> "TUR", kind |-> "str", str |-> "Middle East & N. Africa"],
     [code |-> "IRN", kind |-> "str", str |-> "Middle East & N. Africa"],
     [code |-> "IRQ", kind |-> "str", str |-> "Middle East & N. Africa"],
     [code |-> "JOR", kind |-> "str", str |-> "Middle East & N. Africa"],
     [code |-> "LBN", kind |-> "str", str |-> "Middle East & N. Africa"],
     [code |-> "KWT", kind |-> "str", str |-> "Middle East & N. Africa"],
     [code |-> "QAT", kind |-> "str", str |-> "Middle East & N. Africa"],
     [code |-> "BHR", kind |-> "str", str |-> "Middle East & N. Africa"],
     [code |-> "OMN", kind |-> "str", str |-> "Middle East & N. Africa"],
     [code |-> "SYR", kind |-> "str", str |-> "Middle East & N. Africa"],
     [code |-> "YEM", kind |-> "str", str |-> "Middle East & N. Africa"],
     [code |-> "EGY", kind |-> "str", str |-> "Middle East & N. Africa"],
     [code |-> "LBY", kind |-> "str", str |-> "Middle East & N. Africa"],
     [code |-> "TUN", kind |-> "str", str |-> "Middle East & N. Africa"],
     [code |-> "DZA", kind |-> "str", str |-> "Middle East & N. Africa"],
     [code |-> "MAR", kind |-> "str", str |-> "Middle East & N. Africa"],
     [code |-> "NGA", kind |-> "str", str |-> "Sub-Saharan Africa"],
     [code |-> "ZAF", kind |-> "str", str |-> "Sub-Saharan Africa"],
     [code |-> "KEN", kind |-> "str", str |-> "Sub-Saharan Africa"],
     [code |-> "ETH", kind |-> "str", str |-> "Sub-Saharan Africa"],
     [code |-> "GHA", kind |-> "str", str |-> "Sub-Saharan Africa"],
     [code |-> "TZA", kind |-> "str", str |-> "Sub-Saharan Africa"],
     [code |-> "UGA", kind |-> "str", str |-> "Sub-Saharan Africa"],
     [code |-> "CMR", kind |-> "str", str |-> "Sub-Saharan Africa"],
     [code |-> "CIV", kind |-> "str", str |-> "Sub-Saharan Africa"],
     [code |-> "SEN", kind |-> "str", str |-> "Sub-Saharan Africa"],
     [code |-> "MLI", kind |-> "str", str |-> "Sub-Saharan Africa"],
     [code |-> "BFA", kind |-> "str", str |-> "Sub-Saharan Africa"],
     [code |-> "NER", kind |-> "str", str |-> "Sub-Saharan Africa"],
     [code |-> "TCD", kind |-> "str", str |-> "Sub-Saharan Africa"],
     [code |-> "SDN", kind |-> "str", str |-> "Sub-Saharan Africa"],
     [code |-> "SSD", kind |-> "str", str |-> "Sub-Saharan Africa"],
     [code |-> "SOM", kind |-> "str", str |-> "Sub-Saharan Africa"],
     [code |-> "COG", kind |-> "str", str |-> "Sub-Saharan Africa"],
     [code |-> "COD", kind |-> "str", str |-> "Sub-Saharan Africa"],
     [code |-> "MOZ", kind |-> "str", str |-> "Sub-Saharan Africa"],
     [code |-> "MDG", kind |-> "str", str |-> "Sub-Saharan Africa"],
     [code |-> "MWI", kind |-> "str", str |-> "Sub-Saharan Africa"],
     [code |-> "ZMB", kind |-> "str", str |-> "Sub-Saharan Africa"],
     [code |-> "ZWE", kind |-> "str", str |-> "Sub-Saharan Africa"],
     [code |-> "AGO", kind |-> "str", str |-> "Sub-Saharan Africa"],
     [code |-> "NAM", kind |-> "str", str |-> "Sub-Saharan Africa"],
     [code |-> "BWA", kind |-> "str", str |-> "Sub-Saharan Africa"],
     [code |-> "LSO", kind |-> "str", str |-> "Sub-Saharan Africa"],
     [code |-> "SWZ", kind |-> "str", str |-> "Sub-Saharan Africa"],
     [code |-> "RWA", kind |-> "str", str |-> "Sub-Saharan Africa"],
     [code |-> "BDI", kind |-> "str", str |-> "Sub-Saharan Africa"],
     [code |-> "BEN", kind |-> "str", str |-> "Sub-Saharan Africa"],
     [code |-> "TGO", kind |-> "str", str |-> "Sub-Saharan Africa"],
     [code |-> "SLE", kind |-> "str", str |-> "Sub-Saharan Africa"],
     [code |-> "LBR", kind |-> "str", str |-> "Sub-Saharan Africa"],
     [code |-> "GIN", kind |-> "str", str |-> "Sub-Saharan Africa"],
     [code |-> "GNB", kind |-> "str", str |-> "Sub-Saharan Africa"],
     [code |-> "GMB", kind |-> "str", str |-> "Sub-Saharan Africa"],
     [code |-> "GAB", kind |-> "str", str |-> "Sub-Saharan Africa"],
     [code |-> "GNQ", kind |-> "str", str |-> "Sub-Saharan Africa"],
     [code |-> "ERI", kind |-> "str", str |-> "Sub-Saharan Africa"],
     [code |-> "DJI", kind |-> "str", str |-> "Sub-Saharan Africa"],
     [code |-> "CPV", kind |-> "str", str |-> "Sub-Saharan Africa"],
     [code |-> "MUS", kind |-> "str", str |-> "Sub-Saharan Africa"],
     [code |-> "MRT", kind |-> "str", str |-> "Sub-Saharan Africa"],
     [code |-> "CAF", kind |-> "str", str |-> "Sub-Saharan Africa"],
     [code |-> "AFG", kind |-> "str", str |-> "Sub-Saharan Africa"],
     [code |-> "IND", kind |-> "str", str |-> "South & Central Asia"],
     [code |-> "PAK", kind |-> "str", str |-> "South & Central Asia"],
     [code |-> "BGD", kind |-> "str", str |-> "South & Central Asia"],
     [code |-> "LKA", kind |-> "str", str |-> "South & Central Asia"],
     [code |-> "NPL", kind |-> "str", str |-> "South & Central Asia"],
     [code |-> "BTN", kind |-> "str", str |-> "South & Central Asia"],
     [code |-> "KAZ", kind |-> "str", str |-> "South & Central Asia"],
     [code |-> "UZB", kind |-> "str", str |-> "South & Central Asia"],
     [code |-> "TKM", kind |-> "str", str |-> "South & Central Asia"],
     [code |-> "TJK", kind |-> "str", str |-> "South & Central Asia"],
     [code |-> "KGZ", kind |-> "str", str |-> "South & Central Asia"],
     [code |-> "CHN", kind |-> "str", str |-> "East & SE Asia"],
     [code |-> "JPN", kind |-> "str", str |-> "East & SE Asia"],
     [code |-> "KOR", kind |-> "str", str |-> "East & SE Asia"],
     [code |-> "TWN", kind |-> "str", str |-> "East & SE Asia"],
     [code |-> "MNG", kind |-> "str", str |-> "East & SE Asia"],
     [code |-> "IDN", kind |-> "str", str |-> "East & SE Asia"],
     [code |-> "PHL", kind |-> "str", str |-> "East & SE Asia"],
     [code |-> "VNM", kind |-> "str", str |-> "East & SE Asia"],
     [code |-> "THA", kind |-> "str", str |-> "East & SE Asia"],
     [code |-> "MYS", kind |-> "str", str |-> "East & SE Asia"],
     [code |-> "SGP", kind |-> "str", str |-> "East & SE Asia"],
     [code |-> "MMR", kind |-> "str", str |-> "East & SE Asia"],
     [code |-> "KHM", kind |-> "str", str |-> "East & SE Asia"],
     [code |-> "LAO", kind |-> "str", str |-> "East & SE Asia"],
     [code |-> "BRN", kind |-> "str", str |-> "East & SE Asia"],
     [code |-> "TLS", kind |-> "str", str |-> "East & SE Asia"],
     [code |-> "AUS", kind |-> "str", str |-> "Oceania"],
     [code |-> "NZL", kind |-> "str", str |-> "Oceania"],
     [code |-> "FJI", kind |-> "str", str |-> "Oceania"],
     [code |-> "PNG", kind |-> "str", str |-> "Oceania"] >>

\* _GUN_OWNERSHIP_FALLBACK (src/src/data_utils.py:625-709), entries in insertion order
_GUN_OWNERSHIP_FALLBACK ==
  << [code |-> "AFG", kind |-> "pair", name |-> "Afghanistan", num |-> [ty |-> "float", neg |-> FALSE, w |-> 12, f |-> 50]],
     [code |-> "ALB", kind |-> "pair", name |-> "Albania", num |-> [ty |-> "float", neg |-> FALSE, w |-> 8, f |-> 60]],
     [code |-> "DZA", kind |-> "pair", name |-> "Algeria", num |-> [ty |-> "float", neg |-> FALSE, w |-> 7, f |-> 10]],
     [code |-> "AGO", kind |-> "pair", name |-> "Angola", num |-> [ty |-> "float", neg |-> FALSE, w |-> 3, f |-> 0]],
     [code |-> "ARG", kind |-> "pair", name |-> "Argentina", num |-> [ty |-> "float", neg |-> FALSE, w |-> 10, f |-> 20]],
     [code |-> "ARM", kind |-> "pair", name |-> "Armenia", num |-> [ty |-> "float", neg |-> FALSE, w |-> 4, f |-> 40]],
     [code |-> "AUS", kind |-> "pair", name |-> "Australia", num |-> [ty |-> "float", neg |-> FALSE, w |-> 13, f |-> 70]],
     [code |-> "AUT", kind |-> "pair", name |-> "Austria", num |-> [ty |-> "float", neg |-> FALSE, w |-> 30, f |-> 0]],
     [code |-> "AZE", kind |-> "pair", name |-> "Azerbaijan", num |-> [ty |-> "float", neg |-> FALSE, w |-> 3, f |-> 60]],
     [code |-> "BHS", kind |-> "pair", name |-> "Bahamas", num |-> [ty |-> "float", neg |-> FALSE, w |-> 5, f |-> 30]],
     [code |-> "BHR", kind |-> "pair", name |-> "Bahrain", num |-> [ty |-> "float", neg |-> FALSE, w |-> 11, f |-> 60]],
     [code |-> "BGD", kind |-> "pair", name |-> "Bangladesh", num |-> [ty |-> "float", neg |-> FALSE, w |-> 0, f |-> 50]],
     [code |-> "BRB", kind |-> "pair", name |-> "Barbados", num |-> [ty |-> "float", neg |-> FALSE, w |-> 3, f |-> 20]],
     [code |-> "BLR", kind |-> "pair", name |-> "Belarus", num |-> [ty |-> "float", neg |-> FALSE, w |-> 7, f |-> 30]],
     [code |-> "BEL", kind |-> "pair", name |-> "Belgium", num |-> [ty |-> "float", neg |-> FALSE, w |-> 12, f |-> 20]],
     [code |-> "BLZ", kind |-> "pair", name |-> "Belize", num |-> [ty |-> "float", neg |-> FALSE, w |-> 10, f |-> 0]],
     [code |-> "BEN", kind |-> "pair", name |-> "Benin", num |-> [ty |-> "float", neg |-> FALSE, w |-> 1, f |-> 40]],
     [code |-> "BOL", kind |-> "pair", name |-> "Bolivia", num |-> [ty |-> "float", neg |-> FALSE, w |-> 2, f |-> 80]],
     [code |-> "BIH", kind |-> "pair", name |-> "Bosnia and Herzegovina", num |-> [ty |-> "float", neg |-> FALSE, w |-> 31, f |-> 20]],
     [code |-> "BWA", kind |-> "pair", name |-> "Botswana", num |-> [ty |-> "float", neg |-> FALSE, w |-> 3, f |-> 30]],
     [code |-> "BRA", kind |-> "pair", name |-> "Brazil", num |-> [ty |-> "float", neg |-> FALSE, w |-> 8, f |-> 30]],
     [code |-> "BGR", kind |-> "pair", name |-> "Bulgaria", num |-> [ty |-> "float", neg |-> FALSE, w |-> 6, f |-> 20]],
     [code |-> "BFA", kind |-> "pair", name |-> "Burkina Faso", num |-> [ty |-> "float", neg |-> FALSE, w |-> 1, f |-> 10]],
     [code |-> "BDI", kind |-> "pair", name |-> "Burundi", num |-> [ty |-> "float", neg |-> FALSE, w |-> 1, f |-> 60]],
     [code |-> "KHM", kind |-> "pair", name |-> "Cambodia", num |-> [ty |-> "float", neg |-> FALSE, w |-> 4, f |-> 50]],
     [code |-> "CMR", kind |-> "pair", name |-> "Cameroon", num |-> [ty |-> "float", neg |-> FALSE, w |-> 1, f |-> 10]],
     [code |-> "CAN", kind |-> "pair", name |-> "Canada", num |-> [ty |-> "float", neg |-> FALSE, w |-> 34, f |-> 70]],
     [code |-> "CAF", kind |-> "pair", name |-> "Central African Republic", num |-> [ty |-> "float", neg |-> FALSE, w |-> 1, f |-> 0]],
     [code |-> "TCD", kind |-> "pair", name |-> "Chad", num |-> [ty |-> "float", neg |-> FALSE, w |-> 1, f |-> 30]],
     [code |-> "CHL", kind |-> "pair", name |-> "Chile", num |-> [ty |-> "float", neg |-> FALSE, w |-> 10, f |-> 50]],
     [code |-> "CHN", kind |-> "pair", name |-> "China", num |-> [ty |-> "float", neg |-> FALSE, w |-> 3, f |-> 60]],
     [code |-> "COL", kind |-> "pair", name |-> "Colombia", num |-> [ty |-> "float", neg |-> FALSE, w |-> 10, f |-> 10]],
     [code |-> "COG", kind |-> "pair", name |-> "Congo", num |-> [ty |-> "float", neg |-> FALSE, w |-> 2, f |-> 10]],
     [code |-> "COD", kind |-> "pair", name |-> "DR Congo", num |-> [ty |-> "float", neg |-> FALSE, w |-> 1, f |-> 40]],
     [code |-> "CRI", kind |-> "pair", name |-> "Costa Rica", num |-> [ty |-> "float", neg |-> FALSE, w |-> 10, f |-> 0]],
     [code |-> "CIV", kind |-> "pair", name |-> "Cote d'Ivoire", num |-> [ty |-> "float", neg |-> FALSE, w |-> 2, f |-> 80]],
     [code |-> "HRV", kind |-> "pair", name |-> "Croatia", num |-> [ty |-> "float", neg |-> FALSE, w |-> 21, f |-> 70]],
     [code |-> "CUB", kind |-> "pair", name |-> "Cuba", num |-> [ty |-> "float", neg |-> FALSE, w |-> 4, f |-> 50]],
     [code |-> "CYP", kind |-> "pair", name |-> "Cyprus", num |-> [ty |-> "float", neg |-> FALSE, w |-> 36, f |-> 40]],
     [code |-> "CZE", kind |-> "pair", name |-> "Czech Republic", num |-> [ty |-> "float", neg |-> FALSE, w |-> 16, f |-> 30]],
     [code |-> "DNK", kind |-> "pair", name |-> "Denmark", num |-> [ty |-> "float", neg |-> FALSE, w |-> 9, f |-> 90]],
     [code |-> "DOM", kind |-> "pair", name |-> "Dominican Republic", num |-> [ty |-> "float", neg |-> FALSE, w |-> 8, f |-> 70]],
     [code |-> "ECU", kind |-> "pair", name |-> "Ecuador", num |-> [ty |-> "float", neg |-> FALSE, w |-> 3, f |-> 80]],
     [code |-> "EGY", kind |-> "pair", name |-> "Egypt", num |-> [ty |-> "float", neg |-> FALSE, w |-> 3, f |-> 50]],
     [code |-> "SLV", kind |-> "pair", name |-> "El Salvador", num |-> [ty |-> "float", neg |-> FALSE, w |-> 5, f |-> 80]],
     [code |-> "ERI", kind |-> "pair", name |-> "Eritrea", num |-> [ty |-> "float", neg |-> FALSE, w |-> 0, f |-> 50]],
     [code |-> "EST", kind |-> "pair", name |-> "Estonia", num |-> [ty |-> "float", neg |-> FALSE, w |-> 9, f |-> 20]],
     [code |-> "SWZ", kind |-> "pair", name |-> "Eswatini", num |-> [ty |-> "float", neg |-> FALSE, w |-> 3, f |-> 50]],
     [code |-> "ETH", kind |-> "pair", name |-> "Ethiopia", num |-> [ty |-> "float", neg |-> FALSE, w |-> 0, f |-> 60]],
     [code |-> "FJI", kind |-> "pair", name |-> "Fiji", num |-> [ty |-> "float", neg |-> FALSE, w |-> 0, f |-> 50]],
     [code |-> "FIN", kind |-> "pair", name |-> "Finland", num |-> [ty |-> "float", neg |-> FALSE, w |-> 32, f |-> 40]],
     [code |-> "FRA", kind |-> "pair", name |-> "France", num |-> [ty |-> "float", neg |-> FALSE, w |-> 19, f |-> 60]],
     [code |-> "GAB", kind |-> "pair", name |-> "Gabon", num |-> [ty |-> "float", neg |-> FALSE, w |-> 2, f |-> 0]],
     [code |-> "GMB", kind |-> "pair", name |-> "Gambia", num |-> [ty |-> "float", neg |-> FALSE, w |-> 1, f |-> 30]],
     [code |-> "GEO", kind |-> "pair", name |-> "Georgia", num |-> [ty |-> "float", neg |-> FALSE, w |-> 7, f |-> 50]],
     [code |-> "DEU", kind |-> "pair", name |-> "Germany", num |-> [ty |-> "float", neg |-> FALSE, w |-> 19, f |-> 60]],
     [code |-> "GHA", kind |-> "pair", name |-> "Ghana", num |-> [ty |-> "float", neg |-> FALSE, w |-> 1, f |-> 40]],
     [code |-> "GRC", kind |-> "pair", name |-> "Greece", num |-> [ty |-> "float", neg |-> FALSE, w |-> 22, f |-> 50]],
     [code |-> "GTM", kind |-> "pair", name |-> "Guatemala", num |-> [ty |-> "float", neg |-> FALSE, w |-> 12, f |-> 0]],
     [code |-> "GIN", kind |-> "pair", name |-> "Guinea", num |-> [ty |-> "float", neg |-> FALSE, w |-> 1, f |-> 10]],
     [code |-> "GNB", kind |-> "pair", name |-> "Guinea-Bissau", num |-> [ty |-> "float", neg |-> FALSE, w |-> 2, f |-> 0]],
     [code |-> "GUY", kind |-> "pair", name |-> "Guyana", num |-> [ty |-> "float", neg |-> FALSE, w |-> 4, f |-> 0]],
     [code |-> "HTI", kind |-> "pair", name |-> "Haiti", num |-> [ty |-> "float", neg |-> FALSE, w |-> 1, f |-> 70]],
     [code |-> "HND", kind |-> "pair", name |-> "Honduras", num |-> [ty |-> "float", neg |-> FALSE, w |-> 14, f |-> 10]],
     [code |-> "HUN", kind |-> "pair", name |-> "Hungary", num |-> [ty |-> "float", neg |-> FALSE, w |-> 5, f |-> 50]],
     [code |-> "ISL", kind |-> "pair", name |-> "Iceland", num |-> [ty |-> "float", neg |-> FALSE, w |-> 30, f |-> 30]],
     [code |-> "IND", kind |-> "pair", name |-> "India", num |-> [ty |-> "float", neg |-> FALSE, w |-> 5, f |-> 30]],
     [code |-> "IDN", kind |-> "pair", name |-> "Indonesia", num |-> [ty |-> "float", neg |-> FALSE, w |-> 0, f |-> 50]],
     [code |-> "IRN", kind |-> "pair", name |-> "Iran", num |-> [ty |-> "float", neg |-> FALSE, w |-> 7, f |-> 30]],
     [code |-> "IRQ", kind |-> "pair", name |-> "Iraq", num |-> [ty |-> "float", neg |-> FALSE, w |-> 19, f |-> 60]],
     [code |-> "IRL", kind |-> "pair", name |-> "Ireland", num |-> [ty |-> "float", neg |-> FALSE, w |-> 7, f |-> 20]],
     [code |-> "ISR", kind |-> "pair", name |-> "Israel", num |-> [ty |-> "float", neg |-> FALSE, w |-> 7, f |-> 30]],
     [code |-> "ITA", kind |-> "pair", name |-> "Italy", num |-> [ty |-> "float", neg |-> FALSE, w |-> 14, f |-> 40]],
     [code |-> "JAM", kind |-> "pair", name |-> "Jamaica", num |-> [ty |-> "float", neg |-> FALSE, w |-> 8, f |-> 10]],
     [code |-> "JPN", kind |-> "pair", name |-> "Japan", num |-> [ty |-> "float", neg |-> FALSE, w |-> 0, f |-> 30]],
     [code |-> "JOR", kind |-> "pair", name |-> "Jordan", num |-> [ty |-> "float", neg |-> FALSE, w |-> 11, f |-> 50]],
     [code |-> "KAZ", kind |-> "pair", name |-> "Kazakhstan", num |-> [ty |-> "float", neg |-> FALSE, w |-> 3, f |-> 90]],
     [code |-> "KEN", kind |-> "pair", name |-> "Kenya", num |-> [ty |-> "float", neg |-> FALSE, w |-> 1, f |-> 70]],
     [code |-> "KOR", kind |-> "pair", name |-> "South Korea", num |-> [ty |-> "float", neg |-> FALSE, w |-> 0, f |-> 20]],
     [code |-> "KWT", kind |-> "pair", name |-> "Kuwait", num |-> [ty |-> "float", neg |-> FALSE, w |-> 24, f |-> 80]],
     [code |-> "KGZ", kind |-> "pair", name |-> "Kyrgyzstan", num |-> [ty |-> "float", neg |-> FALSE, w |-> 3, f |-> 90]],
     [code |-> "LAO", kind |-> "pair", name |-> "Laos", num |-> [ty |-> "float", neg |-> FALSE, w |-> 2, f |-> 20]],
     [code |-> "LVA", kind |-> "pair", name |-> "Latvia", num |-> [ty |-> "float", neg |-> FALSE, w |-> 10, f |-> 10]],
     [code |-> "LBN", kind |-> "pair", name |-> "Lebanon", num |-> [ty |-> "float", neg |-> FALSE, w |-> 31, f |-> 90]],
     [code |-> "LSO", kind |-> "pair", name |-> "Lesotho", num |-> [ty |-> "float", neg |-> FALSE, w |-> 2, f |-> 70]],
     [code |-> "LBR", kind |-> "pair", name |-> "Liberia", num |-> [ty |-> "float", neg |-> FALSE, w |-> 2, f |-> 20]],
     [code |-> "LBY", kind |-> "pair", name |-> "Libya", num |-> [ty |-> "float", neg |-> FALSE, w |-> 15, f |-> 50]],
     [code |-> "LTU", kind |-> "pair", name |-> "Lithuania", num |-> [ty |-> "float", neg |-> FALSE, w |-> 8, f |-> 10]],
     [code |-> "LUX", kind |-> "pair", name |-> "Luxembourg", num |-> [ty |-> "float", neg |-> FALSE, w |-> 15, f |-> 30]],
     [code |-> "MDG", kind |-> "pair", name |-> "Madagascar", num |-> [ty |-> "float", neg |-> FALSE, w |-> 0, f |-> 50]],
     [code |-> "MWI", kind |-> "pair", name |-> "Malawi", num |-> [ty |-> "float", neg |-> FALSE, w |-> 0, f |-> 70]],
     [code |-> "MYS", kind |-> "pair", name |-> "Malaysia", num |-> [ty |-> "float", neg |-> FALSE, w |-> 1, f |-> 50]],
     [code |-> "MLI", kind |-> "pair", name |-> "Mali", num |-> [ty |-> "float", neg |-> FALSE, w |-> 1, f |-> 50]],
     [code |-> "MLT", kind |-> "pair", name |-> "Malta", num |-> [ty |-> "float", neg |-> FALSE, w |-> 11, f |-> 90]],
     [code |-> "MRT", kind |-> "pair", name |-> "Mauritania", num |-> [ty |-> "float", neg |-> FALSE, w |-> 3, f |-> 50]],
     [code |-> "MUS", kind |-> "pair", name |-> "Mauritius", num |-> [ty |-> "float", neg |-> FALSE, w |-> 3, f |-> 50]],
     [code |-> "MEX", kind |-> "pair", name |-> "Mexico", num |-> [ty |-> "float", neg |-> FALSE, w |-> 16, f |-> 80]],
     [code |-> "MDA", kind |-> "pair", name |-> "Moldova", num |-> [ty |-> "float", neg |-> FALSE, w |-> 4, f |-> 0]],
     [code |-> "MNG", kind |-> "pair", name |-> "Mongolia", num |-> [ty |-> "float", neg |-> FALSE, w |-> 7, f |-> 30]],
     [code |-> "MNE", kind |-> "pair", name |-> "Montenegro", num |-> [ty |-> "float", neg |-> FALSE, w |-> 23, f |-> 10]],
     [code |-> "MAR", kind |-> "pair", name |-> "Morocco", num |-> [ty |-> "float", neg |-> FALSE, w |-> 5, f |-> 10]],
     [code |-> "MOZ", kind |-> "pair", name |-> "Mozambique", num |-> [ty |-> "float", neg |-> FALSE, w |-> 2, f |-> 80]],
     [code |-> "MMR", kind |-> "pair", name |-> "Myanmar", num |-> [ty |-> "float", neg |-> FALSE, w |-> 1, f |-> 60]],
     [code |-> "NAM", kind |-> "pair", name |-> "Namibia", num |-> [ty |-> "float", neg |-> FALSE, w |-> 5, f |-> 60]],
     [code |-> "NPL", kind |-> "pair", name |-> "Nepal", num |-> [ty |-> "float", neg |-> FALSE, w |-> 2, f |-> 0]],
     [code |-> "NLD", kind |-> "pair", name |-> "Netherlands", num |-> [ty |-> "float", neg |-> FALSE, w |-> 2, f |-> 60]],
     [code |-> "NZL", kind |-> "pair", name |-> "New Zealand", num |-> [ty |-> "float", neg |-> FALSE, w |-> 26, f |-> 30]],
     [code |-> "NIC", kind |-> "pair", name |-> "Nicaragua", num |-> [ty |-> "float", neg |-> FALSE, w |-> 6, f |-> 70]],
     [code |-> "NER", kind |-> "pair", name |-> "Niger", num |-> [ty |-> "float", neg |-> FALSE, w |-> 0, f |-> 70]],
     [code |-> "NGA", kind |-> "pair", name |-> "Nigeria", num |-> [ty |-> "float", neg |-> FALSE, w |-> 1, f |-> 50]],
     [code |-> "NOR", kind |-> "pair", name |-> "Norway", num |-> [ty |-> "float", neg |-> FALSE, w |-> 28, f |-> 80]],
     [code |-> "OMN", kind |-> "pair", name |-> "Oman", num |-> [ty |-> "float", neg |-> FALSE, w |-> 25, f |-> 50]],
     [code |-> "PAK", kind |-> "pair", name |-> "Pakistan", num |-> [ty |-> "float", neg |-> FALSE, w |-> 22, f |-> 30]],
     [code |-> "PAN", kind |-> "pair", name |-> "Panama", num |-> [ty |-> "float", neg |-> FALSE, w |-> 7, f |-> 70]],
     [code |-> "PNG", kind |-> "pair", name |-> "Papua New Guinea", num |-> [ty |-> "float", neg |-> FALSE, w |-> 3, f |-> 90]],
     [code |-> "PRY", kind |-> "pair", name |-> "Paraguay", num |-> [ty |-> "float", neg |-> FALSE, w |-> 17, f |-> 0]],
     [code |-> "PER", kind |-> "pair", name |-> "Peru", num |-> [ty |-> "float", neg |-> FALSE, w |-> 5, f |-> 0]],
     [code |-> "PHL", kind |-> "pair", name |-> "Philippines", num |-> [ty |-> "float", neg |-> FALSE, w |-> 3, f |-> 60]],
     [code |-> "POL", kind |-> "pair", name |-> "Poland", num |-> [ty |-> "float", neg |-> FALSE, w |-> 2, f |-> 50]],
     [code |-> "PRT", kind |-> "pair", name |-> "Portugal", num |-> [ty |-> "float", neg |-> FALSE, w |-> 8, f |-> 50]],
     [code |-> "QAT", kind |-> "pair", name |-> "Qatar", num |-> [ty |-> "float", neg |-> FALSE, w |-> 19, f |-> 20]],
     [code |-> "ROU", kind |-> "pair", name |-> "Romania", num |-> [ty |-> "float", neg |-> FALSE, w |-> 2, f |-> 60]],
     [code |-> "RUS", kind |-> "pair", name |-> "Russia", num |-> [ty |-> "float", neg |-> FALSE, w |-> 12, f |-> 30]],
     [code |-> "RWA", kind |-> "pair", name |-> "Rwanda", num |-> [ty |-> "float", neg |-> FALSE, w |-> 0, f |-> 60]],
     [code |-> "SAU", kind |-> "pair", name |-> "Saudi Arabia", num |-> [ty |-> "float", neg |-> FALSE, w |-> 19, f |-> 30]],
     [code |-> "SEN", kind |-> "pair", name |-> "Senegal", num |-> [ty |-> "float", neg |-> FALSE, w |-> 2, f |-> 0]],
     [code |-> "SRB", kind |-> "pair", name |-> "Serbia", num |-> [ty |-> "float", neg |-> FALSE, w |-> 39, f |-> 10]],
     [code |-> "SLE", kind |-> "pair", name |-> "Sierra Leone", num |-> [ty |-> "float", neg |-> FALSE, w |-> 0, f |-> 60]],
     [code |-> "SGP", kind |-> "pair", name |-> "Singapore", num |-> [ty |-> "float", neg |-> FALSE, w |-> 0, f |-> 30]],
     [code |-> "SVK", kind |-> "pair", name |-> "Slovakia", num |-> [ty |-> "float", neg |-> FALSE, w |-> 8, f |-> 30]],
     [code |-> "SVN", kind |-> "pair", name |-> "Slovenia", num |-> [ty |-> "float", neg |-> FALSE, w |-> 13, f |-> 50]],
     [code |-> "SOM", kind |-> "pair", name |-> "Somalia", num |-> [ty |-> "float", neg |-> FALSE, w |-> 9, f |-> 10]],
     [code |-> "ZAF", kind |-> "pair", name |-> "South Africa", num |-> [ty |-> "float", neg |-> FALSE, w |-> 9, f |-> 70]],
     [code |-> "SSD", kind |-> "pair", name |-> "South Sudan", num |-> [ty |-> "float", neg |-> FALSE, w |-> 1, f |-> 50]],
     [code |-> "ESP", kind |-> "pair", name |-> "Spain", num |-> [ty |-> "float", neg |-> FALSE, w |-> 7, f |-> 50]],
     [code |-> "LKA", kind |-> "pair", name |-> "Sri Lanka", num |-> [ty |-> "float", neg |-> FALSE, w |-> 1, f |-> 50]],
     [code |-> "SDN", kind |-> "pair", name |-> "Sudan", num |-> [ty |-> "float", neg |-> FALSE, w |-> 6, f |-> 20]],
     [code |-> "SUR", kind |-> "pair", name |-> "Suriname", num |-> [ty |-> "float", neg |-> FALSE, w |-> 4, f |-> 80]],
     [code |-> "SWE", kind |-> "pair", name |-> "Sweden", num |-> [ty |-> "float", neg |-> FALSE, w |-> 23, f |-> 10]],
     [code |-> "CHE", kind |-> "pair", name |-> "Switzerland", num |-> [ty |-> "float", neg |-> FALSE, w |-> 27, f |-> 60]],
     [code |-> "SYR", kind |-> "pair", name |-> "Syria", num |-> [ty |-> "float", neg |-> FALSE, w |-> 3, f |-> 90]],
     [code |-> "TJK", kind |-> "pair", name |-> "Tajikistan", num |-> [ty |-> "float", neg |-> FALSE, w |-> 1, f |-> 40]],
     [code |-> "TZA", kind |-> "pair", name |-> "Tanzania", num |-> [ty |-> "float", neg |-> FALSE, w |-> 1, f |-> 40]],
     [code |-> "THA", kind |-> "pair", name |-> "Thailand", num |-> [ty |-> "float", neg |-> FALSE, w |-> 15, f |-> 10]],
     [code |-> "TLS", kind |-> "pair", name |-> "Timor-Leste", num |-> [ty |-> "float", neg |-> FALSE, w |-> 5, f |-> 50]],
     [code |-> "TGO", kind |-> "pair", name |-> "Togo", num |-> [ty |-> "float", neg |-> FALSE, w |-> 1, f |-> 60]],
     [code |-> "TTO", kind |-> "pair", name |-> "Trinidad and Tobago", num |-> [ty |-> "float", neg |-> FALSE, w |-> 3, f |-> 0]],
     [code |-> "TUN", kind |-> "pair", name |-> "Tunisia", num |-> [ty |-> "float", neg |-> FALSE, w |-> 1, f |-> 0]],
     [code |-> "TUR", kind |-> "pair", name |-> "Turkey", num |-> [ty |-> "float", neg |-> FALSE, w |-> 12, f |-> 50]],
     [code |-> "TKM", kind |-> "pair", name |-> "Turkmenistan", num |-> [ty |-> "float", neg |-> FALSE, w |-> 3, f |-> 80]],
     [code |-> "UGA", kind |-> "pair", name |-> "Uganda", num |-> [ty |-> "float", neg |-> FALSE, w |-> 1, f |-> 40]],
     [code |-> "UKR", kind |-> "pair", name |-> "Ukraine", num |-> [ty |-> "float", neg |-> FALSE, w |-> 9, f |-> 90]],
     [code |-> "ARE", kind |-> "pair", name |-> "United Arab Emirates", num |-> [ty |-> "float", neg |-> FALSE, w |-> 22, f |-> 10]],
     [code |-> "GBR", kind |-> "pair", name |-> "United Kingdom", num |-> [ty |-> "float", neg |-> FALSE, w |-> 4, f |-> 60]],
     [code |-> "USA", kind |-> "pair", name |-> "United States", num |-> [ty |-> "float", neg |-> FALSE, w |-> 120, f |-> 50]],
     [code |-> "URY", kind |-> "pair", name |-> "Uruguay", num |-> [ty |-> "float", neg |-> FALSE, w |-> 34, f |-> 70]],
     [code |-> "UZB", kind |-> "pair", name |-> "Uzbekistan", num |-> [ty |-> "float", neg |-> FALSE, w |-> 1, f |-> 70]],
     [code |-> "VEN", kind |-> "pair", name |-> "Venezuela", num |-> [ty |-> "float", neg |-> FALSE, w |-> 18, f |-> 50]],
     [code |-> "VNM", kind |-> "pair", name |-> "Vietnam", num |-> [ty |-> "float", neg |-> FALSE, w |-> 1, f |-> 60]],
     [code |-> "YEM", kind |-> "pair", name |-> "Yemen", num |-> [ty |-> "float", neg |-> FALSE, w |-> 52, f |-> 80]],
     [code |-> "ZMB", kind |-> "pair", name |-> "Zambia", num |-> [ty |-> "float", neg |-> FALSE, w |-> 1, f |-> 60]],
     [code |-> "ZWE", kind |-> "pair", name |-> "Zimbabwe", num |-> [ty |-> "float", neg |-> FALSE, w |-> 2, f |-> 80]] >>

\* _GUN_CONTROL_STRICTNESS_FALLBACK (src/src/data_utils.py:731-815), entries in insertion order
_GUN_CONTROL_STRICTNESS_FALLBACK ==
  << [code |-> "AFG", kind |-> "pair", name |-> "Afghanistan", num |-> [ty |-> "int", neg |-> FALSE, w |-> 1, f |-> 0]],
     [code |-> "ALB", kind |-> "pair", name |-> "Albania", num |-> [ty |-> "int", neg |-> FALSE, w |-> 3, f |-> 0]],
     [code |-> "DZA", kind |-> "pair", name |-> "Algeria", num |-> [ty |-> "int", neg |-> FALSE, w |-> 4, f |-> 0]],
     [code |-> "AGO", kind |-> "pair", name |-> "Angola", num |-> [ty |-> "int", neg |-> FALSE, w |-> 3, f |-> 0]],
     [code |-> "ARG", kind |-> "pair", name |-> "Argentina", num |-> [ty |-> "int", neg |-> FALSE, w |-> 3, f |-> 0]],
     [code |-> "ARM", kind |-> "pair", name |-> "Armenia", num |-> [ty |-> "int", neg |-> FALSE, w |-> 3, f |-> 0]],
     [code |-> "AUS", kind |-> "pair", name |-> "Australia", num |-> [ty |-> "int", neg |-> FALSE, w |-> 4, f |-> 0]],
     [code |-> "AUT", kind |-> "pair", name |-> "Austria", num |-> [ty |-> "int", neg |-> FALSE, w |-> 3, f |-> 0]],
     [code |-> "AZE", kind |-> "pair", name |-> "Azerbaijan", num |-> [ty |-> "int", neg |-> FALSE, w |-> 4, f |-> 0]],
     [code |-> "BHS", kind |-> "pair", name |-> "Bahamas", num |-> [ty |-> "int", neg |-> FALSE, w |-> 3, f |-> 0]],
     [code |-> "BHR", kind |-> "pair", name |-> "Bahrain", num |-> [ty |-> "int", neg |-> FALSE, w |-> 4, f |-> 0]],
     [code |-> "BGD", kind |-> "pair", name |-> "Bangladesh", num |-> [ty |-> "int", neg |-> FALSE, w |-> 4, f |-> 0]],
     [code |-> "BRB", kind |-> "pair", name |-> "Barbados", num |-> [ty |-> "int", neg |-> FALSE, w |-> 3, f |-> 0]],
     [code |-> "BLR", kind |-> "pair", name |-> "Belarus", num |-> [ty |-> "int", neg |-> FALSE, w |-> 4, f |-> 0]],
     [code |-> "BEL", kind |-> "pair", name |-> "Belgium", num |-> [ty |-> "int", neg |-> FALSE, w |-> 3, f |-> 0]],
     [code |-> "BLZ", kind |-> "pair", name |-> "Belize", num |-> [ty |-> "int", neg |-> FALSE, w |-> 2, f |-> 0]],
     [code |-> "BEN", kind |-> "pair", name |-> "Benin", num |-> [ty |-> "int", neg |-> FALSE, w |-> 3, f |-> 0]],
     [code |-> "BOL", kind |-> "pair", name |-> "Bolivia", num |-> [ty |-> "int", neg |-> FALSE, w |-> 3, f |-> 0]],
     [code |-> "BIH", kind |-> "pair", name |-> "Bosnia and Herzegovina", num |-> [ty |-> "int", neg |-> FALSE, w |-> 3, f |-> 0]],
     [code |-> "BWA", kind |-> "pair", name |-> "Botswana", num |-> [ty |-> "int", neg |-> FALSE, w |-> 3, f |-> 0]],
     [code |-> "BRA", kind |-> "pair", name |-> "Brazil", num |-> [ty |-> "int", neg |-> FALSE, w |-> 3, f |-> 0]],
     [code |-> "BGR", kind |-> "pair", name |-> "Bulgaria", num |-> [ty |-> "int", neg |-> FALSE, w |-> 3, f |-> 0]],
     [code |-> "BFA", kind |-> "pair", name |-> "Burkina Faso", num |-> [ty |-> "int", neg |-> FALSE, w |-> 3, f |-> 0]],
     [code |-> "BDI", kind |-> "pair", name |-> "Burundi", num |-> [ty |-> "int", neg |-> FALSE, w |-> 4, f |-> 0]],
     [code |-> "KHM", kind |-> "pair", name |-> "Cambodia", num |-> [ty |-> "int", neg |-> FALSE, w |-> 4, f |-> 0]],
     [code |-> "CMR", kind |-> "pair", name |-> "Cameroon", num |-> [ty |-> "int", neg |-> FALSE, w |-> 3, f |-> 0]],
     [code |-> "CAN", kind |-> "pair", name |-> "Canada", num |-> [ty |-> "int", neg |-> FALSE, w |-> 3, f |-> 0]],
     [code |-> "CAF", kind |-> "pair", name |-> "Central African Republic", num |-> [ty |-> "int", neg |-> FALSE, w |-> 2, f |-> 0]],
     [code |-> "TCD", kind |-> "pair", name |-> "Chad", num |-> [ty |-> "int", neg |-> FALSE, w |-> 3, f |-> 0]],
     [code |-> "CHL", kind |-> "pair", name |-> "Chile", num |-> [ty |-> "int", neg |-> FALSE, w |-> 3, f |-> 0]],
     [code |-> "CHN", kind |-> "pair", name |-> "China", num |-> [ty |-> "int", neg |-> FALSE, w |-> 5, f |-> 0]],
     [code |-> "COL", kind |-> "pair", name |-> "Colombia", num |-> [ty |-> "int", neg |-> FALSE, w |-> 3, f |-> 0]],
     [code |-> "COG", kind |-> "pair", name |-> "Congo", num |-> [ty |-> "int", neg |-> FALSE, w |-> 3, f |-> 0]],
     [code |-> "COD", kind |-> "pair", name |-> "DR Congo", num |-> [ty |-> "int", neg |-> FALSE, w |-> 3, f |-> 0]],
     [code |-> "CRI", kind |-> "pair", name |-> "Costa Rica", num |-> [ty |-> "int", neg |-> FALSE, w |-> 3, f |-> 0]],
     [code |-> "CIV", kind |-> "pair", name |-> "Cote d'Ivoire", num |-> [ty |-> "int", neg |-> FALSE, w |-> 3, f |-> 0]],
     [code |-> "HRV", kind |-> "pair", name |-> "Croatia", num |-> [ty |-> "int", neg |-> FALSE, w |-> 3, f |-> 0]],
     [code |-> "CUB", kind |-> "pair", name |-> "Cuba", num |-> [ty |-> "int", neg |-> FALSE, w |-> 4, f |-> 0]],
     [code |-> "CYP", kind |-> "pair", name |-> "Cyprus", num |-> [ty |-> "int", neg |-> FALSE, w |-> 3, f |-> 0]],
     [code |-> "CZE", kind |-> "pair", name |-> "Czech Republic", num |-> [ty |-> "int", neg |-> FALSE, w |-> 2, f |-> 0]],
     [code |-> "DNK", kind |-> "pair", name |-> "Denmark", num |-> [ty |-> "int", neg |-> FALSE, w |-> 4, f |-> 0]],
     [code |-> "DOM", kind |-> "pair", name |-> "Dominican Republic", num |-> [ty |-> "int", neg |-> FALSE, w |-> 3, f |-> 0]],
     [code |-> "ECU", kind |-> "pair", name |-> "Ecuador", num |-> [ty |-> "int", neg |-> FALSE, w |-> 3, f |-> 0]],
     [code |-> "EGY", kind |-> "pair", name |-> "Egypt", num |-> [ty |-> "int", neg |-> FALSE, w |-> 4, f |-> 0]],
     [code |-> "SLV", kind |-> "pair", name |-> "El Salvador", num |-> [ty |-> "int", neg |-> FALSE, w |-> 3, f |-> 0]],
     [code |-> "ERI", kind |-> "pair", name |-> "Eritrea", num |-> [ty |-> "int", neg |-> FALSE, w |-> 5, f |-> 0]],
     [code |-> "EST", kind |-> "pair", name |-> "Estonia", num |-> [ty |-> "int", neg |-> FALSE, w |-> 3, f |-> 0]],
     [code |-> "SWZ", kind |-> "pair", name |-> "Eswatini", num |-> [ty |-> "int", neg |-> FALSE, w |-> 3, f |-> 0]],
     [code |-> "ETH", kind |-> "pair", name |-> "Ethiopia", num |-> [ty |-> "int", neg |-> FALSE, w |-> 4, f |-> 0]],
     [code |-> "FJI", kind |-> "pair", name |-> "Fiji", num |-> [ty |-> "int", neg |-> FALSE, w |-> 4, f |-> 0]],
     [code |-> "FIN", kind |-> "pair", name |-> "Finland", num |-> [ty |-> "int", neg |-> FALSE, w |-> 3, f |-> 0]],
     [code |-> "FRA", kind |-> "pair", name |-> "France", num |-> [ty |-> "int", neg |-> FALSE, w |-> 3, f |-> 0]],
     [code |-> "GAB", kind |-> "pair", name |-> "Gabon", num |-> [ty |-> "int", neg |-> FALSE, w |-> 3, f |-> 0]],
     [code |-> "GMB", kind |-> "pair", name |-> "Gambia", num |-> [ty |-> "int", neg |-> FALSE, w |-> 3, f |-> 0]],
     [code |-> "GEO", kind |-> "pair", name |-> "Georgia", num |-> [ty |-> "int", neg |-> FALSE, w |-> 3, f |-> 0]],
     [code |-> "DEU", kind |-> "pair", name |-> "Germany", num |-> [ty |-> "int", neg |-> FALSE, w |-> 3, f |-> 0]],
     [code |-> "GHA", kind |-> "pair", name |-> "Ghana", num |-> [ty |-> "int", neg |-> FALSE, w |-> 3, f |-> 0]],
     [code |-> "GRC", kind |-> "pair", name |-> "Greece", num |-> [ty |-> "int", neg |-> FALSE, w |-> 3, f |-> 0]],
     [code |-> "GTM", kind |-> "pair", name |-> "Guatemala", num |-> [ty |-> "int", neg |-> FALSE, w |-> 2, f |-> 0]],
     [code |-> "GIN", kind |-> "pair", name |-> "Guinea", num |-> [ty |-> "int", neg |-> FALSE, w |-> 3, f |-> 0]],
     [code |-> "GNB", kind |-> "pair", name |-> "Guinea-Bissau", num |-> [ty |-> "int", neg |-> FALSE, w |-> 3, f |-> 0]],
     [code |-> "GUY", kind |-> "pair", name |-> "Guyana", num |-> [ty |-> "int", neg |-> FALSE, w |-> 3, f |-> 0]],
     [code |-> "HTI", kind |-> "pair", name |-> "Haiti", num |-> [ty |-> "int", neg |-> FALSE, w |-> 2, f |-> 0]],
     [code |-> "HND", kind |-> "pair", name |-> "Honduras", num |-> [ty |-> "int", neg |-> FALSE, w |-> 2, f |-> 0]],
     [code |-> "HUN", kind |-> "pair", name |-> "Hungary", num |-> [ty |-> "int", neg |-> FALSE, w |-> 4, f |-> 0]],
     [code |-> "ISL", kind |-> "pair", name |-> "Iceland", num |-> [ty |-> "int", neg |-> FALSE, w |-> 3, f |-> 0]],
     [code |-> "IND", kind |-> "pair", name |-> "India", num |-> [ty |-> "int", neg |-> FALSE, w |-> 3, f |-> 0]],
     [code |-> "IDN", kind |-> "pair", name |-> "Indonesia", num |-> [ty |-> "int", neg |-> FALSE, w |-> 4, f |-> 0]],
     [code |-> "IRN", kind |-> "pair", name |-> "Iran", num |-> [ty |-> "int", neg |-> FALSE, w |-> 4, f |-> 0]],
     [code |-> "IRQ", kind |-> "pair", name |-> "Iraq", num |-> [ty |-> "int", neg |-> FALSE, w |-> 2, f |-> 0]],
     [code |-> "IRL", kind |-> "pair", name |-> "Ireland", num |-> [ty |-> "int", neg |-> FALSE, w |-> 4, f |-> 0]],
     [code |-> "ISR", kind |-> "pair", name |-> "Israel", num |-> [ty |-> "int", neg |-> FALSE, w |-> 3, f |-> 0]],
     [code |-> "ITA", kind |-> "pair", name |-> "Italy", num |-> [ty |-> "int", neg |-> FALSE, w |-> 3, f |-> 0]],
     [code |-> "JAM", kind |-> "pair", name |-> "Jamaica", num |-> [ty |-> "int", neg |-> FALSE, w |-> 4, f |-> 0]],
     [code |-> "JPN", kind |-> "pair", name |-> "Japan", num |-> [ty |-> "int", neg |-> FALSE, w |-> 5, f |-> 0]],
     [code |-> "JOR", kind |-> "pair", name |-> "Jordan", num |-> [ty |-> "int", neg |-> FALSE, w |-> 3, f |-> 0]],
     [code |-> "KAZ", kind |-> "pair", name |-> "Kazakhstan", num |-> [ty |-> "int", neg |-> FALSE, w |-> 3, f |-> 0]],
     [code |-> "KEN", kind |-> "pair", name |-> "Kenya", num |-> [ty |-> "int", neg |-> FALSE, w |-> 4, f |-> 0]],
     [code |-> "KOR", kind |-> "pair", name |-> "South Korea", num |-> [ty |-> "int", neg |-> FALSE, w |-> 4, f |-> 0]],
     [code |-> "KWT", kind |-> "pair", name |-> "Kuwait", num |-> [ty |-> "int", neg |-> FALSE, w |-> 3, f |-> 0]],
     [code |-> "KGZ", kind |-> "pair", name |-> "Kyrgyzstan", num |-> [ty |-> "int", neg |-> FALSE, w |-> 3, f |-> 0]],
     [code |-> "LAO", kind |-> "pair", name |-> "Laos", num |-> [ty |-> "int", neg |-> FALSE, w |-> 4, f |-> 0]],
     [code |-> "LVA", kind |-> "pair", name |-> "Latvia", num |-> [ty |-> "int", neg |-> FALSE, w |-> 3, f |-> 0]],
     [code |-> "LBN", kind |-> "pair", name |-> "Lebanon", num |-> [ty |-> "int", neg |-> FALSE, w |-> 2, f |-> 0]],
     [code |-> "LSO", kind |-> "pair", name |-> "Lesotho", num |-> [ty |-> "int", neg |-> FALSE, w |-> 3, f |-> 0]],
     [code |-> "LBR", kind |-> "pair", name |-> "Liberia", num |-> [ty |-> "int", neg |-> FALSE, w |-> 3, f |-> 0]],
     [code |-> "LBY", kind |-> "pair", name |-> "Libya", num |-> [ty |-> "int", neg |-> FALSE, w |-> 2, f |-> 0]],
     [code |-> "LTU", kind |-> "pair", name |-> "Lithuania", num |-> [ty |-> "int", neg |-> FALSE, w |-> 3, f |-> 0]],
     [code |-> "LUX", kind |-> "pair", name |-> "Luxembourg", num |-> [ty |-> "int", neg |-> FALSE, w |-> 4, f |-> 0]],
     [code |-> "MDG", kind |-> "pair", name |-> "Madagascar", num |-> [ty |-> "int", neg |-> FALSE, w |-> 3, f |-> 0]],
     [code |-> "MWI", kind |-> "pair", name |-> "Malawi", num |-> [ty |-> "int", neg |-> FALSE, w |-> 3, f |-> 0]],
     [code |-> "MYS", kind |-> "pair", name |-> "Malaysia", num |-> [ty |-> "int", neg |-> FALSE, w |-> 4, f |-> 0]],
     [code |-> "MLI", kind |-> "pair", name |-> "Mali", num |-> [ty |-> "int", neg |-> FALSE, w |-> 3, f |-> 0]],
     [code |-> "MLT", kind |-> "pair", name |-> "Malta", num |-> [ty |-> "int", neg |-> FALSE, w |-> 4, f |-> 0]],
     [code |-> "MRT", kind |-> "pair", name |-> "Mauritania", num |-> [ty |-> "int", neg |-> FALSE, w |-> 3, f |-> 0]],
     [code |-> "MUS", kind |-> "pair", name |-> "Mauritius", num |-> [ty |-> "int", neg |-> FALSE, w |-> 4, f |-> 0]],
     [code |-> "MEX", kind |-> "pair", name |-> "Mexico", num |-> [ty |-> "int", neg |-> FALSE, w |-> 3, f |-> 0]],
     [code |-> "MDA", kind |-> "pair", name |-> "Moldova", num |-> [ty |-> "int", neg |-> FALSE, w |-> 4, f |-> 0]],
     [code |-> "MNG", kind |-> "pair", name |-> "Mongolia", num |-> [ty |-> "int", neg |-> FALSE, w |-> 3, f |-> 0]],
     [code |-> "MNE", kind |-> "pair", name |-> "Montenegro", num |-> [ty |-> "int", neg |-> FALSE, w |-> 3, f |-> 0]],
     [code |-> "MAR", kind |-> "pair", name |-> "Morocco", num |-> [ty |-> "int", neg |-> FALSE, w |-> 4, f |-> 0]],
     [code |-> "MOZ", kind |-> "pair", name |-> "Mozambique", num |-> [ty |-> "int", neg |-> FALSE, w |-> 3, f |-> 0]],
     [code |-> "MMR", kind |-> "pair", name |-> "Myanmar", num |-> [ty |-> "int", neg |-> FALSE, w |-> 5, f |-> 0]],
     [code |-> "NAM", kind |-> "pair", name |-> "Namibia", num |-> [ty |-> "int", neg |-> FALSE, w |-> 3, f |-> 0]],
     [code |-> "NPL", kind |-> "pair", name |-> "Nepal", num |-> [ty |-> "int", neg |-> FALSE, w |-> 4, f |-> 0]],
     [code |-> "NLD", kind |-> "pair", name |-> "Netherlands", num |-> [ty |-> "int", neg |-> FALSE, w |-> 4, f |-> 0]],
     [code |-> "NZL", kind |-> "pair", name |-> "New Zealand", num |-> [ty |-> "int", neg |-> FALSE, w |-> 4, f |-> 0]],
     [code |-> "NIC", kind |-> "pair", name |-> "Nicaragua", num |-> [ty |-> "int", neg |-> FALSE, w |-> 3, f |-> 0]],
     [code |-> "NER", kind |-> "pair", name |-> "Niger", num |-> [ty |-> "int", neg |-> FALSE, w |-> 3, f |-> 0]],
     [code |-> "NGA", kind |-> "pair", name |-> "Nigeria", num |-> [ty |-> "int", neg |-> FALSE, w |-> 3, f |-> 0]],
     [code |-> "NOR", kind |-> "pair", name |-> "Norway", num |-> [ty |-> "int", neg |-> FALSE, w |-> 3, f |-> 0]],
     [code |-> "OMN", kind |-> "pair", name |-> "Oman", num |-> [ty |-> "int", neg |-> FALSE, w |-> 4, f |-> 0]],
     [code |-> "PAK", kind |-> "pair", name |-> "Pakistan", num |-> [ty |-> "int", neg |-> FALSE, w |-> 2, f |-> 0]],
     [code |-> "PAN", kind |-> "pair", name |-> "Panama", num |-> [ty |-> "int", neg |-> FALSE, w |-> 3, f |-> 0]],
     [code |-> "PNG", kind |-> "pair", name |-> "Papua New Guinea", num |-> [ty |-> "int", neg |-> FALSE, w |-> 3, f |-> 0]],
     [code |-> "PRY", kind |-> "pair", name |-> "Paraguay", num |-> [ty |-> "int", neg |-> FALSE, w |-> 2, f |-> 0]],
     [code |-> "PER", kind |-> "pair", name |-> "Peru", num |-> [ty |-> "int", neg |-> FALSE, w |-> 3, f |-> 0]],
     [code |-> "PHL", kind |-> "pair", name |-> "Philippines", num |-> [ty |-> "int", neg |-> FALSE, w |-> 3, f |-> 0]],
     [code |-> "POL", kind |-> "pair", name |-> "Poland", num |-> [ty |-> "int", neg |-> FALSE, w |-> 4, f |-> 0]],
     [code |-> "PRT", kind |-> "pair", name |-> "Portugal", num |-> [ty |-> "int", neg |-> FALSE, w |-> 3, f |-> 0]],
     [code |-> "QAT", kind |-> "pair", name |-> "Qatar", num |-> [ty |-> "int", neg |-> FALSE, w |-> 4, f |-> 0]],
     [code |-> "ROU", kind |-> "pair", name |-> "Romania", num |-> [ty |-> "int", neg |-> FALSE, w |-> 4, f |-> 0]],
     [code |-> "RUS", kind |-> "pair", name |-> "Russia", num |-> [ty |-> "int", neg |-> FALSE, w |-> 4, f |-> 0]],
     [code |-> "RWA", kind |-> "pair", name |-> "Rwanda", num |-> [ty |-> "int", neg |-> FALSE, w |-> 5, f |-> 0]],
     [code |-> "SAU", kind |-> "pair", name |-> "Saudi Arabia", num |-> [ty |-> "int", neg |-> FALSE, w |-> 3, f |-> 0]],
     [code |-> "SEN", kind |-> "pair", name |-> "Senegal", num |-> [ty |-> "int", neg |-> FALSE, w |-> 3, f |-> 0]],
     [code |-> "SRB", kind |-> "pair", name |-> "Serbia", num |-> [ty |-> "int", neg |-> FALSE, w |-> 2, f |-> 0]],
     [code |-> "SLE", kind |-> "pair", name |-> "Sierra Leone", num |-> [ty |-> "int", neg |-> FALSE, w |-> 3, f |-> 0]],
     [code |-> "SGP", kind |-> "pair", name |-> "Singapore", num |-> [ty |-> "int", neg |-> FALSE, w |-> 5, f |-> 0]],
     [code |-> "SVK", kind |-> "pair", name |-> "Slovakia", num |-> [ty |-> "int", neg |-> FALSE, w |-> 3, f |-> 0]],
     [code |-> "SVN", kind |-> "pair", name |-> "Slovenia", num |-> [ty |-> "int", neg |-> FALSE, w |-> 3, f |-> 0]],
     [code |-> "SOM", kind |-> "pair", name |-> "Somalia", num |-> [ty |-> "int", neg |-> FALSE, w |-> 1, f |-> 0]],
     [code |-> "ZAF", kind |-> "pair", name |-> "South Africa", num |-> [ty |-> "int", neg |-> FALSE, w |-> 3, f |-> 0]],
     [code |-> "SSD", kind |-> "pair", name |-> "South Sudan", num |-> [ty |-> "int", neg |-> FALSE, w |-> 2, f |-> 0]],
     [code |-> "ESP", kind |-> "pair", name |-> "Spain", num |-> [ty |-> "int", neg |-> FALSE, w |-> 3, f |-> 0]],
     [code |-> "LKA", kind |-> "pair", name |-> "Sri Lanka", num |-> [ty |-> "int", neg |-> FALSE, w |-> 4, f |-> 0]],
     [code |-> "SDN", kind |-> "pair", name |-> "Sudan", num |-> [ty |-> "int", neg |-> FALSE, w |-> 2, f |-> 0]],
     [code |-> "SUR", kind |-> "pair", name |-> "Suriname", num |-> [ty |-> "int", neg |-> FALSE, w |-> 2, f |-> 0]],
     [code |-> "SWE", kind |-> "pair", name |-> "Sweden", num |-> [ty |-> "int", neg |-> FALSE, w |-> 3, f |-> 0]],
     [code |-> "CHE", kind |-> "pair", name |-> "Switzerland", num |-> [ty |-> "int", neg |-> FALSE, w |-> 2, f |-> 0]],
     [code |-> "SYR", kind |-> "pair", name |-> "Syria", num |-> [ty |-> "int", neg |-> FALSE, w |-> 3, f |-> 0]],
     [code |-> "TJK", kind |-> "pair", name |-> "Tajikistan", num |-> [ty |-> "int", neg |-> FALSE, w |-> 4, f |-> 0]],
     [code |-> "TZA", kind |-> "pair", name |-> "Tanzania", num |-> [ty |-> "int", neg |-> FALSE, w |-> 4, f |-> 0]],
     [code |-> "THA", kind |-> "pair", name |-> "Thailand", num |-> [ty |-> "int", neg |-> FALSE, w |-> 3, f |-> 0]],
     [code |-> "TLS", kind |-> "pair", name |-> "Timor-Leste", num |-> [ty |-> "int", neg |-> FALSE, w |-> 4, f |-> 0]],
     [code |-> "TGO", kind |-> "pair", name |-> "Togo", num |-> [ty |-> "int", neg |-> FALSE, w |-> 3, f |-> 0]],
     [code |-> "TTO", kind |-> "pair", name |-> "Trinidad and Tobago", num |-> [ty |-> "int", neg |-> FALSE, w |-> 3, f |-> 0]],
     [code |-> "TUN", kind |-> "pair", name |-> "Tunisia", num |-> [ty |-> "int", neg |-> FALSE, w |-> 4, f |-> 0]],
     [code |-> "TUR", kind |-> "pair", name |-> "Turkey", num |-> [ty |-> "int", neg |-> FALSE, w |-> 3, f |-> 0]],
     [code |-> "TKM", kind |-> "pair", name |-> "Turkmenistan", num |-> [ty |-> "int", neg |-> FALSE, w |-> 5, f |-> 0]],
     [code |-> "UGA", kind |-> "pair", name |-> "Uganda", num |-> [ty |-> "int", neg |-> FALSE, w |-> 3, f |-> 0]],
     [code |-> "UKR", kind |-> "pair", name |-> "Ukraine", num |-> [ty |-> "int", neg |-> FALSE, w |-> 3, f |-> 0]],
     [code |-> "ARE", kind |-> "pair", name |-> "United Arab Emirates", num |-> [ty |-> "int", neg |-> FALSE, w |-> 4, f |-> 0]],
     [code |-> "GBR", kind |-> "pair", name |-> "United Kingdom", num |-> [ty |-> "int", neg |-> FALSE, w |-> 4, f |-> 0]],
     [code |-> "USA", kind |-> "pair", name |-> "United States", num |-> [ty |-> "int", neg |-> FALSE, w |-> 1, f |-> 0]],
     [code |-> "URY", kind |-> "pair", name |-> "Uruguay", num |-> [ty |-> "int", neg |-> FALSE, w |-> 3, f |-> 0]],
     [code |-> "UZB", kind |-> "pair", name |-> "Uzbekistan", num |-> [ty |-> "int", neg |-> FALSE, w |-> 4, f |-> 0]],
     [code |-> "VEN", kind |-> "pair", name |-> "Venezuela", num |-> [ty |-> "int", neg |-> FALSE, w |-> 3, f |-> 0]],
     [code |-> "VNM", kind |-> "pair", name |-> "Vietnam", num |-> [ty |-> "int", neg |-> FALSE, w |-> 5, f |-> 0]],
     [code |-> "YEM", kind |-> "pair", name |-> "Yemen", num |-> [ty |-> "int", neg |-> FALSE, w |-> 1, f |-> 0]],
     [code |-> "ZMB", kind |-> "pair", name |-> "Zambia", num |-> [ty |-> "int", neg |-> FALSE, w |-> 3, f |-> 0]],
     [code |-> "ZWE", kind |-> "pair", name |-> "Zimbabwe", num |-> [ty |-> "int", neg |-> FALSE, w |-> 3, f |-> 0]] >>

(***************************************************************************)
(* State.                                                                  *)
(*   tableWrites  the assignments made to the module-level dicts of        *)
(*             data_utils.py (mutable globals) since the import, in order  *)
(*   pc        "idle", or "returned" while the caller holds a call's       *)
(*             outcome                                                     *)
(*   call      the last call made: its function and arguments              *)
(*   served    the HTTP responses the remote API gave during that call     *)
(*   requests  the HTTP requests that call issued, in order                *)
(*   result    the value the call returned (a DataFrame, a fragment, ...)  *)
(*   raised    the exception that call propagated to its caller, or "none" *)
(*   printed   what that call printed, in order                            *)
(*   fs        the notebooks directory: file name -> notebook or missing   *)
(*   report    docs/report.html: the text last written to it               *)
(*   reportWrites  how often the last call wrote the report                *)
(*   earlier   the first fragment extract_outputs returned, and for which  *)
(*             notebook                                                    *)
(*   locals    local lists of the last call of generate_html.py as they    *)
(*             stood when it ended: the notebooks read, main's nav_items   *)
(*             and content_sections, extract_outputs's parts               *)
(*   preceded  a function of data_utils.py was called before the last call *)
(***************************************************************************)
VARIABLES tableWrites, pc, call, served, requests, result, raised, printed, fs, report,
          reportWrites, earlier, locals, preceded

vars == <<tableWrites, pc, call, served, requests, result, raised, printed, fs, report,
          reportWrites, earlier, locals, preceded>>

(***************************************************************************)
(* Bounds of the model.                                                    *)
(***************************************************************************)
\* longest record list of a hand-built API response
MaxRecords == 2

\* how many years, counted back from LastYear, a year range may span
NumYears == 3

(***************************************************************************)
(* Python values.                                                          *)
(***************************************************************************)
Int0(n) == [ty |-> "int", neg |-> FALSE, w |-> n, f |-> 0]

Flt(w, f) == [ty |-> "float", neg |-> FALSE, w |-> w, f |-> f]

\* float(x) of a number: the same magnitude, of type float
FloatOfNumber(n) == [n EXCEPT !.ty = "float"]

NonNegative(n) == ~n.neg \/ (n.w = 0 /\ n.f = 0)

IsInteger(n) == n.ty = "int"

Digits == {"0", "1", "2", "3", "4", "5", "6", "7", "8", "9"}

DigitVal(c) == CASE c = "0" -> 0 [] c = "1" -> 1 [] c = "2" -> 2 [] c = "3" -> 3
                 [] c = "4" -> 4 [] c = "5" -> 5 [] c = "6" -> 6 [] c = "7" -> 7
                 [] c = "8" -> 8 [] c = "9" -> 9

RECURSIVE DecimalValue(_)
DecimalValue(cs) ==
  IF cs = <<>> THEN 0
  ELSE 10 * DecimalValue(SubSeq(cs, 1, Len(cs) - 1)) + DigitVal(cs[Len(cs)])

AllDigits(cs) == \A i \in 1..Len(cs) : cs[i] \in Digits

DotAt(cs) == IF \E i \in 1..Len(cs) : cs[i] = "."
             THEN CHOOSE i \in 1..Len(cs) : cs[i] = "." /\ \A j \in 1..(i-1) : cs[j] # "."
             ELSE 0

\* float(s) of a string, given as its characters: [ok, num].  The grammar
\* covered is [-]digits[.digits] with at least one digit; anything else is a
\* ValueError.  Decimals beyond the second are below the model's resolution.
FloatOfString(cs) ==
  LET neg  == cs # <<>> /\ cs[1] = "-"
      body == IF neg THEN Tail(cs) ELSE cs
      d    == DotAt(body)
      ip   == IF d = 0 THEN body ELSE SubSeq(body, 1, d - 1)
      fp   == IF d = 0 THEN <<>> ELSE SubSeq(body, d + 1, Len(body))
      ok   == AllDigits(ip) /\ AllDigits(fp) /\ Len(ip) + Len(fp) > 0
      fr   == IF Len(fp) = 0 THEN 0
              ELSE IF Len(fp) = 1 THEN 10 * DigitVal(fp[1])
              ELSE 10 * DigitVal(fp[1]) + DigitVal(fp[2])
  IN  IF ok THEN [ok |-> TRUE,
                  num |-> [ty |-> "float", neg |-> neg, w |-> DecimalValue(ip), f |-> fr]]
      ELSE [ok |-> FALSE, num |-> Flt(0, 0)]

(***************************************************************************)
(* pandas.DataFrame: its column labels and its rows (each row a record     *)
(* from column label to value), in order.                                  *)
(***************************************************************************)
\* pd.DataFrame(columns=[...]): no rows, the given columns
DataFrameOfColumns(cols) == [columns |-> cols, rows |-> <<>>]

\* the keys of a row dict in insertion order, for the row shapes the module builds
RowKeys(row) ==
  IF "value" \in DOMAIN row THEN <<"country_code", "country_name", "value">>
  ELSE IF "population" \in DOMAIN row THEN <<"country_code", "country_name", "population">>
  ELSE IF "gini" \in DOMAIN row THEN <<"country_code", "country_name", "gini">>
  ELSE IF "gun_homicide_rate" \in DOMAIN row
       THEN <<"country_code", "country_name", "gun_homicide_rate">>
  ELSE IF "drug_offense_rate" \in DOMAIN row
       THEN <<"country_code", "country_name", "drug_offense_rate">>
  ELSE IF "guns_per_100" \in DOMAIN row THEN <<"country_code", "country_name", "guns_per_100">>
  ELSE IF "gun_control_strictness" \in DOMAIN row
       THEN <<"country_code", "country_name", "gun_control_strictness">>
  ELSE <<"country_code", "region">>

\* pd.DataFrame(rows) of a list of dicts: the columns are the dicts' keys; an
\* empty list gives a frame with no columns at all
DataFrameOfRows(rows) ==
  [columns |-> IF rows = <<>> THEN <<>> ELSE RowKeys(rows[1]), rows |-> rows]

\* len(df)
FrameLen(df) == Len(df.rows)

RenameLabel(c, old, new) == IF c = old THEN new ELSE c

\* df.rename(columns={old: new})
RenameColumn(df, old, new) ==
  [columns |-> [i \in 1..Len(df.columns) |-> RenameLabel(df.columns[i], old, new)],
   rows    |-> [i \in 1..Len(df.rows) |->
                 [c \in {RenameLabel(k, old, new) : k \in DOMAIN df.rows[i]} |->
                    IF c = new /\ old \in DOMAIN df.rows[i] THEN df.rows[i][old]
                    ELSE df.rows[i][c]]]]

(***************************************************************************)
(* The remote API's answer to one HTTP GET.                                *)
(*   net   "ok", or the exception requests.get raises                      *)
(*   code  the HTTP status code                                            *)
(*   body  [json |-> does the body parse as JSON, data |-> the parsed      *)
(*          value]                                                         *)
(* A parsed JSON value at the envelope level is [k, n, items]: a list      *)
(* (items), a dict or a string (of n keys / characters), a number or null. *)
(* An element of the envelope is [k, n, recs]: a list of records (recs), a *)
(* dict or string of n members, a number or null.  A record is             *)
(* [k, country, value]; k = "scalar" is a record that is no JSON object.   *)
(***************************************************************************)
NoId == [k |-> "missing", s |-> ""]

NoName == [k |-> "missing", s |-> ""]

NoValue == [k |-> "missing", num |-> Int0(0), chars |-> <<>>]

NullValue == [k |-> "null", num |-> Int0(0), chars |-> <<>>]

NumValue(n) == [k |-> "num", num |-> n, chars |-> <<>>]

StrValue(cs) == [k |-> "str", num |-> Int0(0), chars |-> cs]

NoCountry == [k |-> "missing", id |-> NoId, name |-> NoName]

NullCountry == [k |-> "null", id |-> NoId, name |-> NoName]

ScalarCountry == [k |-> "scalar", id |-> NoId, name |-> NoName]

Country(id, name) == [k |-> "dict", id |-> id, name |-> name]

StrId(s) == [k |-> "str", s |-> s]

NullId == [k |-> "null", s |-> ""]

Record(country, value) == [k |-> "dict", country |-> country, value |-> value]

ScalarRecord == [k |-> "scalar", country |-> NoCountry, value |-> NoValue]

\* a well-formed record of the API: {"country": {"id": code, "value": name}, "value": v}
GoodRecord(code, name, v) == Record(Country(StrId(code), StrId(name)), NumValue(v))

NullElement == [k |-> "null", n |-> 0, recs |-> <<>>]

NumElement == [k |-> "num", n |-> 0, recs |-> <<>>]

DictElement(n) == [k |-> "dict", n |-> n, recs |-> <<>>]

StrElement(n) == [k |-> "str", n |-> n, recs |-> <<>>]

ListElement(recs) == [k |-> "list", n |-> Len(recs), recs |-> recs]

ListData(items) == [k |-> "list", n |-> Len(items), items |-> items]

ScalarData(k, n) == [k |-> k, n |-> n, items |-> <<>>]

JsonResponse(data) == [net |-> "ok", code |-> 200, body |-> [json |-> TRUE, data |-> data]]

TextResponse(code) ==
  [net |-> "ok", code |-> code, body |-> [json |-> FALSE, data |-> ScalarData("null", 0)]]

NetFailure(exc) ==
  [net |-> exc, code |-> 0, body |-> [json |-> FALSE, data |-> ScalarData("null", 0)]]

\* the usual two-element envelope [metadata, records]
Envelope(meta, recs) == JsonResponse(ListData(<<meta, ListElement(recs)>>))

(***************************************************************************)
(* fetch_world_bank_indicator (data_utils.py:11-41).                       *)
(***************************************************************************)
\* the classes "except Exception" catches, among those the try body can raise
ExceptionSubclasses ==
  {"ConnectionError", "Timeout", "HTTPError", "JSONDecodeError",
   "TypeError", "KeyError", "AttributeError", "ValueError"}

IndicatorColumns == <<"country_code", "country_name", "value">>

\* a slip: "len(code) >= 3"
HasCodeLengthAtLeast(s) == Len(s) >= 3

\* len(code) == 3, line 32
HasCodeLength(s) == Len(s) = 3

\* one pass of the loop body, lines 29-37: [exc, keep, row]
ProcessEntry(entry) ==
  LET none    == [exc |-> "none", keep |-> FALSE, row |-> <<>>]
      fail(e) == [exc |-> e, keep |-> FALSE, row |-> <<>>]
      \* entry.get("country", {})
      country == IF entry.country.k = "missing" THEN Country(NoId, NoName)
                 ELSE entry.country
      \* .get("id", "") and .get("value", "")
      code    == IF country.id.k = "missing" THEN StrId("") ELSE country.id
      name    == IF country.name.k = "missing" THEN StrId("") ELSE country.name
      \* entry.get("value")
      val     == IF entry.value.k = "missing" THEN NullValue ELSE entry.value
      conv    == FloatOfString(val.chars)
  IN  IF entry.k # "dict" THEN fail("AttributeError")
      ELSE IF country.k # "dict" THEN fail("AttributeError")
      ELSE IF val.k = "null" THEN none
      ELSE IF code.k # "str" THEN fail("TypeError")
      ELSE IF ~HasCodeLength(code.s) THEN none
      ELSE IF val.k = "str" /\ ~conv.ok THEN fail("ValueError")
      ELSE [exc  |-> "none",
            keep |-> TRUE,
            row  |-> [country_code |-> code.s,
                      country_name |-> name,
                      value |-> IF val.k = "str" THEN conv.num
                                ELSE FloatOfNumber(val.num)]]

\* the position of the first pass that raises, or 0; passes[i] is the outcome
\* of the loop body on the i-th entry
FirstRaise(passes) ==
  IF \E i \in 1..Len(passes) : passes[i].exc # "none"
  THEN CHOOSE i \in 1..Len(passes) :
         /\ passes[i].exc # "none"
         /\ \A j \in 1..(i - 1) : passes[j].exc = "none"
  ELSE 0

IsKept(pass) == pass.keep

RowsOfPasses(passes) == [i \in 1..Len(passes) |-> passes[i].row]

\* the loop ends at pass k, the first that raises (k = 0: none does); rows is
\* the list appended to until then
LoopEndingAt(passes, k) ==
  [exc  |-> IF k = 0 THEN "none" ELSE passes[k].exc,
   rows |-> RowsOfPasses(SelectSeq(IF k = 0 THEN passes ELSE SubSeq(passes, 1, k - 1),
                                   IsKept))]

LoopOver(passes) == LoopEndingAt(passes, FirstRaise(passes))

\* the for loop, lines 27-37: [exc, rows]
CollectRows(entries) ==
  LoopOver([i \in 1..Len(entries) |-> ProcessEntry(entries[i])])

\* what "for entry in data[1]" iterates over: a list gives its records, a dict
\* gives its keys and a string its characters (none of them a JSON object)
IterationOf(element) ==
  IF element.k = "list" THEN element.recs
  ELSE [i \in 1..element.n |-> ScalarRecord]

Raise(e, rows) == [exc |-> e, rows |-> rows, ret |-> DataFrameOfRows(<<>>)]

Return(df) == [exc |-> "none", rows |-> df.rows, ret |-> df]

\* line 38, or the exception of the loop
AfterLoop(loop) ==
  IF loop.exc # "none" THEN Raise(loop.exc, loop.rows)
  ELSE Return(DataFrameOfRows(loop.rows))

\* lines 27-38, data[1] being the element
OverElement(element) ==
  IF element.k = "null" THEN Return(DataFrameOfColumns(IndicatorColumns))
  ELSE IF element.k = "num" THEN Raise("TypeError", <<>>)
  ELSE AfterLoop(CollectRows(IterationOf(element)))

\* a slip: the records taken from data[0]
OverDataFirst(data) ==
  IF data.k \in {"null", "num"} THEN Raise("TypeError", <<>>)
  ELSE IF data.n < 2 THEN Return(DataFrameOfColumns(IndicatorColumns))
  ELSE IF data.k = "dict" THEN Raise("KeyError", <<>>)
  ELSE OverElement(IF data.k = "list" THEN data.items[1] ELSE StrElement(1))

\* lines 24-38, data being the parsed body
OverData(data) ==
  IF data.k \in {"null", "num"} THEN Raise("TypeError", <<>>)
  ELSE IF data.n < 2 THEN Return(DataFrameOfColumns(IndicatorColumns))
  ELSE IF data.k = "dict" THEN Raise("KeyError", <<>>)
  ELSE OverElement(IF data.k = "list" THEN data.items[2] ELSE StrElement(1))

\* the try body, lines 21-38: [exc, rows, ret]; exc is the exception raised in
\* it ("none" when it returns), rows the list built so far, ret the frame it
\* returns
TryBody(resp) ==
  IF resp.net # "ok" THEN Raise(resp.net, <<>>)
  ELSE IF resp.code >= 400 /\ resp.code < 600 THEN Raise("HTTPError", <<>>)
  ELSE IF ~resp.body.json THEN Raise("JSONDecodeError", <<>>)
  ELSE OverData(resp.body.data)

\* a slip: "except requests.RequestException", which lets the errors of the
\* parsing and of the loop through
ExceptRequestErrorsOnly(indicator, t) ==
  IF t.exc \in {"ConnectionError", "Timeout", "HTTPError"}
  THEN [df      |-> DataFrameOfColumns(IndicatorColumns),
        raised  |-> "none",
        printed |-> <<[text |-> "World Bank API error for", about |-> indicator,
                       exc |-> t.exc]>>]
  ELSE [df |-> DataFrameOfRows(<<>>), raised |-> t.exc, printed |-> <<>>]

\* a slip: the except clause returning the rows built before the exception
ExceptKeepingRows(indicator, t) ==
  IF t.exc \in ExceptionSubclasses
  THEN [df      |-> IF t.rows = <<>> THEN DataFrameOfColumns(IndicatorColumns)
                    ELSE DataFrameOfRows(t.rows),
        raised  |-> "none",
        printed |-> <<[text |-> "World Bank API error for", about |-> indicator,
                       exc |-> t.exc]>>]
  ELSE [df |-> DataFrameOfRows(<<>>), raised |-> t.exc, printed |-> <<>>]

\* the except clause, lines 39-41: what the function does with an exception
\* raised in the try body
ExceptClause(indicator, t) ==
  IF t.exc \in ExceptionSubclasses
  THEN [df      |-> DataFrameOfColumns(IndicatorColumns),
        raised  |-> "none",
        printed |-> <<[text |-> "World Bank API error for", about |-> indicator,
                       exc |-> t.exc]>>]
  ELSE [df |-> DataFrameOfRows(<<>>), raised |-> t.exc, printed |-> <<>>]

\* the GET of line 21
HttpGet(indicator, year) ==
  [url |-> "https://api.worldbank.org/v2/country/all/indicator/",
   indicator |-> indicator, format |-> "json", per_page |-> 300, date |-> year,
   timeout |-> 60]

\* how the function ends, t being the outcome of its try body
EndOfFetch(indicator, t) ==
  IF t.exc = "none" THEN [df |-> t.ret, raised |-> "none", printed |-> <<>>]
  ELSE ExceptClause(indicator, t)

\* a slip: the GET issued again when the first attempt gave no rows
WithRetry(end, request) ==
  [df |-> end.df, raised |-> end.raised, printed |-> end.printed,
   requests |-> IF FrameLen(end.df) = 0 THEN <<request, request>> ELSE <<request>>]

\* the function calls requests.get once, on line 21, outside any loop
WithRequest(end, request) ==
  [df |-> end.df, raised |-> end.raised, printed |-> end.printed,
   requests |-> <<request>>]

\* the whole function: [df, raised, printed, requests]
fetch_world_bank_indicator(indicator, year, resp) ==
  WithRequest(EndOfFetch(indicator, TryBody(resp)), HttpGet(indicator, year))

(***************************************************************************)
(* The fallback-aware wrappers and the table readers                       *)
(* (data_utils.py:44-197).  Each returns [df, raised, printed, requests].  *)
(***************************************************************************)
\* a slip in the data: a strictness level off the scale
EmbeddedTablesOffScale ==
  [population |-> _POPULATION_FALLBACK,
   gini       |-> _GINI_FALLBACK,
   homicide   |-> _GUN_HOMICIDE_FALLBACK,
   drug       |-> _DRUG_OFFENSE_FALLBACK,
   regions    |-> _COUNTRY_REGIONS,
   ownership  |-> _GUN_OWNERSHIP_FALLBACK,
   strictness |-> [_GUN_CONTROL_STRICTNESS_FALLBACK EXCEPT
                     ![1] = [@ EXCEPT !.num = [ty |-> "int", neg |-> FALSE, w |-> 6, f |-> 0]]]]

\* the module-level dicts as the module defines them
EmbeddedTables ==
  [population |-> _POPULATION_FALLBACK,
   gini       |-> _GINI_FALLBACK,
   homicide   |-> _GUN_HOMICIDE_FALLBACK,
   drug       |-> _DRUG_OFFENSE_FALLBACK,
   regions    |-> _COUNTRY_REGIONS,
   ownership  |-> _GUN_OWNERSHIP_FALLBACK,
   strictness |-> _GUN_CONTROL_STRICTNESS_FALLBACK]

\* table[code] = value, for a code the table has
WriteTo(table, w) ==
  [i \in 1..Len(table) |-> IF table[i].code = w.entry.code THEN w.entry ELSE table[i]]

RECURSIVE AfterWrites(_, _, _)
AfterWrites(name, table, writes) ==
  IF writes = <<>> THEN table
  ELSE AfterWrites(name,
                   IF Head(writes).table = name THEN WriteTo(table, Head(writes)) ELSE table,
                   Tail(writes))

\* the module-level dicts as they stand after the given assignments
CurrentTables(writes) ==
  [name \in DOMAIN EmbeddedTables |-> AfterWrites(name, EmbeddedTables[name], writes)]

PopulationThreshold == 100

GiniThreshold == 50

Message(text) == [text |-> text, about |-> "", exc |-> "none"]

\* "for code, (name, x) in table.items()" unpacks every value as a pair
Unpacks(table) == \A i \in 1..Len(table) : table[i].kind = "pair"

Returned(df, out, reqs) ==
  [df |-> df, raised |-> "none", printed |-> out, requests |-> reqs]

Propagated(exc, out, reqs) ==
  [df |-> DataFrameOfRows(<<>>), raised |-> exc, printed |-> out, requests |-> reqs]

PopulationRows(table) ==
  [i \in 1..Len(table) |->
     [country_code |-> table[i].code, country_name |-> StrId(table[i].name),
      population |-> table[i].num]]

\* a slip: "len(df) > 100"
HasMoreThanThreshold(df) == FrameLen(df) > PopulationThreshold

\* len(df) >= 100, line 50
HasEnoughCountries(df) == FrameLen(df) >= PopulationThreshold

\* lines 50-58, f being what the fetcher gave
PopulationFrom(f, tabs) ==
  IF f.raised # "none" THEN f
  ELSE IF HasEnoughCountries(f.df)
  THEN Returned(RenameColumn(f.df, "value", "population"), f.printed, f.requests)
  ELSE IF ~Unpacks(tabs.population)
  THEN Propagated("ValueError",
                  Append(f.printed, Message("Using embedded population fallback data")),
                  f.requests)
  ELSE Returned(DataFrameOfRows(PopulationRows(tabs.population)),
                Append(f.printed, Message("Using embedded population fallback data")),
                f.requests)

\* fetch_population, lines 44-58
fetch_population(year, resp, tabs) ==
  PopulationFrom(fetch_world_bank_indicator("SP.POP.TOTL", year, resp), tabs)

HomicideRows(table) ==
  [i \in 1..Len(table) |->
     [country_code |-> table[i].code, country_name |-> StrId(table[i].name),
      gun_homicide_rate |-> table[i].num]]

\* get_gun_homicide_rates, lines 97-111
get_gun_homicide_rates(tabs) ==
  IF ~Unpacks(tabs.homicide) THEN Propagated("ValueError", <<>>, <<>>)
  ELSE Returned(DataFrameOfRows(HomicideRows(tabs.homicide)), <<>>, <<>>)

DrugRows(table) ==
  [i \in 1..Len(table) |->
     [country_code |-> table[i].code, country_name |-> StrId(table[i].name),
      drug_offense_rate |-> table[i].num]]

\* a slip: the function copied from the one above it, its table not renamed
get_drug_offense_rates_of_homicide(tabs) ==
  Returned(DataFrameOfRows(DrugRows(tabs.homicide)), <<>>, <<>>)

\* get_drug_offense_rates, lines 118-132
get_drug_offense_rates(tabs) ==
  IF ~Unpacks(tabs.drug) THEN Propagated("ValueError", <<>>, <<>>)
  ELSE Returned(DataFrameOfRows(DrugRows(tabs.drug)), <<>>, <<>>)

OwnershipRows(table) ==
  [i \in 1..Len(table) |->
     [country_code |-> table[i].code, country_name |-> StrId(table[i].name),
      guns_per_100 |-> table[i].num]]

\* get_gun_ownership_rates, lines 139-153
get_gun_ownership_rates(tabs) ==
  IF ~Unpacks(tabs.ownership) THEN Propagated("ValueError", <<>>, <<>>)
  ELSE Returned(DataFrameOfRows(OwnershipRows(tabs.ownership)), <<>>, <<>>)

StrictnessRows(table) ==
  [i \in 1..Len(table) |->
     [country_code |-> table[i].code, country_name |-> StrId(table[i].name),
      gun_control_strictness |-> table[i].num]]

\* get_gun_control_strictness, lines 160-182
get_gun_control_strictness(tabs) ==
  IF ~Unpacks(tabs.strictness) THEN Propagated("ValueError", <<>>, <<>>)
  ELSE Returned(DataFrameOfRows(StrictnessRows(tabs.strictness)), <<>>, <<>>)

\* "for code, region in table.items()" takes each value whole
RegionRows(table) ==
  [i \in 1..Len(table) |->
     [country_code |-> table[i].code,
      region |-> IF table[i].kind = "str" THEN table[i].str
                 ELSE <<table[i].name, table[i].num>>]]

\* get_country_regions, lines 189-197
get_country_regions(tabs) ==
  Returned(DataFrameOfRows(RegionRows(tabs.regions)), <<>>, <<>>)

(***************************************************************************)
(* fetch_gini (data_utils.py:61-90).                                       *)
(***************************************************************************)
DigitChar(d) == <<"0", "1", "2", "3", "4", "5", "6", "7", "8", "9">>[d + 1]

\* str(n) of a non-negative int, as its characters
RECURSIVE StrOfNat(_)
StrOfNat(n) == IF n < 10 THEN <<DigitChar(n)>>
               ELSE StrOfNat(n \div 10) \o <<DigitChar(n % 10)>>

\* s.split(":"), on characters: the list of the parts between the colons
RECURSIVE SplitColon(_, _, _)
SplitColon(cs, part, parts) ==
  IF cs = <<>> THEN Append(parts, part)
  ELSE IF Head(cs) = ":" THEN SplitColon(Tail(cs), <<>>, Append(parts, part))
  ELSE SplitColon(Tail(cs), Append(part, Head(cs)), parts)

\* int(s) of a string of decimal digits: [ok, n]; anything else is a ValueError
IntOfString(cs) ==
  IF cs # <<>> /\ AllDigits(cs) THEN [ok |-> TRUE, n |-> DecimalValue(cs)]
  ELSE [ok |-> FALSE, n |-> 0]

\* range(end, start - 1, -1) as a list
RECURSIVE RangeDown(_, _)
RangeDown(hi, lo) == IF hi < lo THEN <<>> ELSE <<hi>> \o RangeDown(hi - 1, lo)

\* df["year"] = year
WithYear(df, year) ==
  [columns |-> Append(df.columns, "year"),
   rows    |-> [i \in 1..Len(df.rows) |->
                 [country_code |-> df.rows[i].country_code,
                  country_name |-> df.rows[i].country_name,
                  value        |-> df.rows[i].value,
                  year         |-> year]]]

\* a slip: a year without rows throws away the frames collected so far
CollectOrAbandon(acc, f, year) ==
  [all_rows |-> IF f.raised = "none" /\ FrameLen(f.df) > 0
                THEN Append(acc.all_rows, WithYear(f.df, year))
                ELSE <<>>,
   printed  |-> acc.printed \o f.printed,
   requests |-> acc.requests \o f.requests,
   raised   |-> f.raised]

\* lines 73-75, f being what the fetcher gave for the year; acc is
\* [all_rows, printed, requests, raised]
Collect(acc, f, year) ==
  [all_rows |-> IF f.raised = "none" /\ FrameLen(f.df) > 0
                THEN Append(acc.all_rows, WithYear(f.df, year))
                ELSE acc.all_rows,
   printed  |-> acc.printed \o f.printed,
   requests |-> acc.requests \o f.requests,
   raised   |-> f.raised]

\* a slip: the loop left as soon as a year gave data
RECURSIVE GiniLoopUntilData(_, _, _)
GiniLoopUntilData(years, respOf, acc) ==
  IF years = <<>> \/ acc.raised # "none" \/ acc.all_rows # <<>> THEN acc
  ELSE GiniLoopUntilData(Tail(years), respOf,
                         Collect(acc,
                                 fetch_world_bank_indicator("SI.POV.GINI",
                                                            StrOfNat(Head(years)),
                                                            respOf[Head(years)]),
                                 Head(years)))

\* the loop of lines 71-75 over the years still to fetch
RECURSIVE GiniLoop(_, _, _)
GiniLoop(years, respOf, acc) ==
  IF years = <<>> \/ acc.raised # "none" THEN acc
  ELSE GiniLoop(Tail(years), respOf,
                Collect(acc,
                        fetch_world_bank_indicator("SI.POV.GINI", StrOfNat(Head(years)),
                                                   respOf[Head(years)]),
                        Head(years)))

\* pd.concat(all_rows, ignore_index=True) of frames with the same columns
RECURSIVE ConcatRows(_)
ConcatRows(frames) ==
  IF frames = <<>> THEN <<>> ELSE Head(frames).rows \o ConcatRows(Tail(frames))

Reverse(seq) == [i \in 1..Len(seq) |-> seq[Len(seq) + 1 - i]]

SetMax(S) == CHOOSE x \in S : \A y \in S : y <= x

\* The orders sort_values may leave rows of equal year in: its default sort
\* (kind="quicksort") is not stable, so that order is not specified.  The
\* model lets it be the order the rows had, or the reverse of it.
TieOrders == {"kept", "reversed"}

\* a slip: "ascending=True", the oldest year first
RECURSIVE SortByYearAscending(_, _)
SortByYearAscending(rows, tie) ==
  IF rows = <<>> THEN <<>>
  ELSE LET top   == SetMax({rows[i].year : i \in 1..Len(rows)})
           isTop(r) == r.year = top
           notTop(r) == r.year # top
           group == SelectSeq(rows, isTop)
       IN  SortByYearAscending(SelectSeq(rows, notTop), tie)
           \o (IF tie = "kept" THEN group ELSE Reverse(group))

\* combined.sort_values("year", ascending=False)
RECURSIVE SortByYearDescending(_, _)
SortByYearDescending(rows, tie) ==
  IF rows = <<>> THEN <<>>
  ELSE LET top   == SetMax({rows[i].year : i \in 1..Len(rows)})
           isTop(r) == r.year = top
           notTop(r) == r.year # top
           group == SelectSeq(rows, isTop)
       IN  (IF tie = "kept" THEN group ELSE Reverse(group))
           \o SortByYearDescending(SelectSeq(rows, notTop), tie)

\* a slip: the deduplication left out
KeepDuplicates(rows) == rows

\* combined.drop_duplicates(subset=["country_code"], keep="first"): a row
\* stays when no row before it has its country code
DropDuplicates(rows) ==
  LET first(i) == \A j \in 1..(i - 1) : rows[j].country_code # rows[i].country_code
      index    == SelectSeq([i \in 1..Len(rows) |-> i], first)
  IN  [k \in 1..Len(index) |-> rows[index[k]]]

\* a slip: the rename alone, the column selection of line 84 left out
GiniFrameWithYear(rows) ==
  [columns |-> <<"country_code", "country_name", "gini", "year">>,
   rows    |-> [i \in 1..Len(rows) |->
                 [country_code |-> rows[i].country_code,
                  country_name |-> rows[i].country_name,
                  gini         |-> rows[i].value,
                  year         |-> rows[i].year]]]

\* rename(columns={"value": "gini"}), [["country_code", "country_name",
\* "gini"]] and reset_index(drop=True), lines 83-84
GiniFrame(rows) ==
  [columns |-> <<"country_code", "country_name", "gini">>,
   rows    |-> [i \in 1..Len(rows) |->
                 [country_code |-> rows[i].country_code,
                  country_name |-> rows[i].country_name,
                  gini         |-> rows[i].value]]]

GiniRows(table) ==
  [i \in 1..Len(table) |->
     [country_code |-> table[i].code, country_name |-> StrId(table[i].name),
      gini |-> table[i].num]]

\* a slip: the combined frame is returned whenever any year gave rows, the
\* threshold of line 82 forgotten
GiniFromAnyRows(combined, acc, tabs) ==
  IF acc.all_rows # <<>>
  THEN Returned(GiniFrame(combined), acc.printed, acc.requests)
  ELSE Returned(DataFrameOfRows(GiniRows(tabs.gini)),
                Append(acc.printed, Message("Using embedded Gini fallback data")),
                acc.requests)

\* lines 82-90, combined being the frame of line 81 (no rows when all_rows is
\* empty)
GiniFrom(combined, acc, tabs) ==
  IF acc.all_rows # <<>> /\ Len(combined) >= GiniThreshold
  THEN Returned(GiniFrame(combined), acc.printed, acc.requests)
  ELSE IF ~Unpacks(tabs.gini)
  THEN Propagated("ValueError",
                  Append(acc.printed, Message("Using embedded Gini fallback data")),
                  acc.requests)
  ELSE Returned(DataFrameOfRows(GiniRows(tabs.gini)),
                Append(acc.printed, Message("Using embedded Gini fallback data")),
                acc.requests)

\* a slip: the threshold applied to the most recent frame alone
GiniSelectOnLatestFrame(acc, tie, tabs) ==
  IF acc.raised # "none" THEN Propagated(acc.raised, acc.printed, acc.requests)
  ELSE IF acc.all_rows # <<>> /\ Len(acc.all_rows[1].rows) < GiniThreshold
  THEN GiniFrom(<<>>, acc, tabs)
  ELSE GiniFrom(DropDuplicates(SortByYearDescending(ConcatRows(acc.all_rows), tie)),
                acc, tabs)

\* lines 77-90: what fetch_gini makes of the frames it collected
GiniSelect(acc, tie, tabs) ==
  IF acc.raised # "none" THEN Propagated(acc.raised, acc.printed, acc.requests)
  ELSE GiniFrom(DropDuplicates(SortByYearDescending(ConcatRows(acc.all_rows), tie)),
                acc, tabs)

NoFrames == [all_rows |-> <<>>, printed |-> <<>>, requests |-> <<>>, raised |-> "none"]

\* lines 69-90, parts being year_range.split(":")
GiniOver(parts, respOf, tie, tabs) ==
  IF Len(parts) # 2 THEN Propagated("ValueError", <<>>, <<>>)
  ELSE IF ~IntOfString(parts[1]).ok \/ ~IntOfString(parts[2]).ok
  THEN Propagated("ValueError", <<>>, <<>>)
  ELSE GiniSelect(GiniLoop(RangeDown(IntOfString(parts[2]).n, IntOfString(parts[1]).n),
                           respOf, NoFrames),
                  tie, tabs)

\* the whole function; year_range is the argument's characters, respOf the
\* API's answer for each year, tie the order the sort leaves ties in
fetch_gini(year_range, respOf, tie, tabs) ==
  GiniOver(SplitColon(year_range, <<>>, <<>>), respOf, tie, tabs)

(***************************************************************************)
(* The inputs: what the remote API may answer.                             *)
(***************************************************************************)
\* the last year of fetch_gini's default range, and fetch_population's default
LastYear == 2022

Years == (LastYear - NumYears + 1)..LastYear

Indicators == {"SP.POP.TOTL", "SI.POV.GINI"}

\* the first element of the envelope: paging metadata, or nothing
Metas == {DictElement(4), NullElement}

\* records of every shape the loop body distinguishes
RecordSamples ==
  { GoodRecord("USA", "United States", Int0(5)),
    GoodRecord("CAN", "Canada", Int0(0)),
    Record(Country(StrId("MEX"), StrId("Mexico")), NullValue),
    Record(Country(StrId("BRA"), NoName), NoValue),
    GoodRecord("1A", "Arab World", Flt(3, 50)),
    GoodRecord("XKXX", "Kosovo", Int0(2)),
    Record(NoCountry, NumValue(Int0(7))),
    Record(NullCountry, NumValue(Int0(7))),
    Record(ScalarCountry, NullValue),
    Record(Country(NullId, StrId("Nowhere")), NumValue(Int0(7))),
    Record(Country(NullId, StrId("Nowhere")), NullValue),
    Record(Country(StrId("FRA"), StrId("France")), StrValue(<<"1", "2", ".", "5">>)),
    Record(Country(StrId("DEU"), StrId("Germany")), StrValue(<<"n", "/", "a">>)),
    Record(Country(StrId("1A"), StrId("Arab World")), StrValue(<<"n", "/", "a">>)),
    ScalarRecord }

RECURSIVE RecordLists(_)
RecordLists(n) ==
  IF n = 0 THEN {<<>>}
  ELSE LET shorter == RecordLists(n - 1)
       IN  shorter \cup {Append(l, r) : l \in {x \in shorter : Len(x) = n - 1},
                                        r \in RecordSamples}

\* the countries a healthy API reports: those of the population table
PoolCode(i) == _POPULATION_FALLBACK[i].code

PoolName(i) == _POPULATION_FALLBACK[i].name

\* what the API reports for a country in a year: the year's last two digits,
\* and a variant in the hundredths
Reported(year, variant) == Flt(year % 100, variant)

\* the records of countries lo..hi of the pool, as reported for the year
Bulk(lo, hi, year) ==
  [i \in 1..(hi - lo + 1) |->
     GoodRecord(PoolCode(lo + i - 1), PoolName(lo + i - 1), Reported(year, 0))]

\* responses that fail before any record is read, or whose envelope is malformed
OddResponses ==
  { NetFailure("ConnectionError"), NetFailure("Timeout"),
    TextResponse(404), TextResponse(500), TextResponse(200),
    [net |-> "ok", code |-> 404,
     body |-> [json |-> TRUE,
               data |-> ListData(<<NullElement, ListElement(Bulk(1, 1, LastYear))>>)]],
    JsonResponse(ScalarData("null", 0)), JsonResponse(ScalarData("num", 0)),
    JsonResponse(ScalarData("dict", 1)), JsonResponse(ScalarData("dict", 2)),
    JsonResponse(ScalarData("str", 1)), JsonResponse(ScalarData("str", 2)),
    JsonResponse(ListData(<<>>)), JsonResponse(ListData(<<DictElement(1)>>)) }
  \cup { JsonResponse(ListData(<<m, e>>)) :
           m \in Metas,
           e \in {NullElement, NumElement, DictElement(0), DictElement(2),
                  StrElement(0), StrElement(2)} }
  \cup { JsonResponse(ListData(<<NullElement, ListElement(Bulk(1, 2, LastYear)), NullElement>>)) }

IndicatorResponses ==
  OddResponses \cup {Envelope(m, l) : m \in Metas, l \in RecordLists(MaxRecords)}

\* bulk answers around the population threshold, alone and followed by one
\* more record of each shape
PopulationResponses ==
  { NetFailure("Timeout"), TextResponse(500), JsonResponse(ListData(<<DictElement(1)>>)) }
  \cup { Envelope(DictElement(4), Bulk(1, n, LastYear)) :
           n \in {0, PopulationThreshold - 1, PopulationThreshold, PopulationThreshold + 1} }
  \cup { Envelope(DictElement(4), Append(Bulk(1, n, LastYear), r)) :
           n \in {PopulationThreshold - 2, PopulationThreshold - 1, PopulationThreshold},
           r \in RecordSamples }

HalfGini == GiniThreshold \div 2

\* answers for one year of the Gini indicator: failures, and bulk answers that
\* overlap, around the Gini threshold
GiniKinds == {"timeout", "empty", "under", "enough", "low half", "high half",
              "twice", "broken"}

GiniResponse(kind, year) ==
  CASE kind = "timeout"   -> NetFailure("Timeout")
    [] kind = "empty"     -> Envelope(NullElement, <<>>)
    [] kind = "under"     -> Envelope(DictElement(4), Bulk(1, GiniThreshold - 1, year))
    [] kind = "enough"    -> Envelope(DictElement(4), Bulk(1, GiniThreshold, year))
    [] kind = "low half"  -> Envelope(DictElement(4), Bulk(1, HalfGini, year))
    [] kind = "high half" -> Envelope(DictElement(4), Bulk(HalfGini + 1, GiniThreshold, year))
    [] kind = "twice"     ->
         Envelope(DictElement(4),
                  Bulk(2, GiniThreshold, year)
                  \o <<GoodRecord(PoolCode(2), PoolName(2), Reported(year, 1))>>)
    [] kind = "broken"    ->
         Envelope(DictElement(4),
                  Append(Bulk(1, GiniThreshold, year), Record(NullCountry, NumValue(Int0(7)))))

\* "start:end"
YearRange(start, end) == StrOfNat(start) \o <<":">> \o StrOfNat(end)

(***************************************************************************)
(* scripts/generate_html.py.  Text is a TLA+ string; the helpers below are *)
(* the str methods the script calls.  A character outside ASCII is written *)
(* as "?".                                                                 *)
(***************************************************************************)
\* lines 12-40
NOTEBOOKS ==
  <<"01_data_collection.ipynb",
    "02_gun_homicide_map.ipynb",
    "03_gini_correlation.ipynb",
    "04_drug_correlation.ipynb",
    "05_population_correlation.ipynb",
    "06_gun_ownership_correlation.ipynb",
    "07_gun_control_correlation.ipynb",
    "08_us_data_collection.ipynb",
    "09_us_gun_homicide_map.ipynb",
    "10_us_gini_correlation.ipynb",
    "11_us_drug_correlation.ipynb",
    "12_us_population_correlation.ipynb",
    "13_us_poverty_correlation.ipynb",
    "14_us_income_correlation.ipynb",
    "15_us_gun_ownership_correlation.ipynb",
    "16_us_gun_control_correlation.ipynb",
    "17_us_mass_shooting_data.ipynb",
    "18_us_mass_shooting_map.ipynb",
    "19_us_mass_shooting_gini.ipynb",
    "20_us_mass_shooting_drug.ipynb",
    "21_us_mass_shooting_population.ipynb",
    "22_us_mass_shooting_poverty.ipynb",
    "23_us_mass_shooting_income.ipynb",
    "24_us_mass_shooting_gun_ownership.ipynb",
    "25_us_mass_shooting_gun_control.ipynb",
    "26_us_mental_illness_homicide.ipynb",
    "27_us_mass_shooting_mental_illness.ipynb">>

SetMin(S) == CHOOSE x \in S : \A y \in S : x <= y

\* s[i-1:] in Python's indexing
From(s, i) == SubSeq(s, i, Len(s))

CharAt(s, i) == SubSeq(s, i, i)

\* s.startswith(p), s.endswith(p)
StartsWith(s, p) == Len(s) >= Len(p) /\ SubSeq(s, 1, Len(p)) = p

EndsWith(s, p) == Len(s) >= Len(p) /\ SubSeq(s, Len(s) - Len(p) + 1, Len(s)) = p

\* where sub occurs in s
Occurrences(s, sub) ==
  {i \in 1..(Len(s) - Len(sub) + 1) : SubSeq(s, i, i + Len(sub) - 1) = sub}

\* sub in s
Contains(s, sub) == Occurrences(s, sub) # {}

\* sep.join(parts)
RECURSIVE Join(_, _)
Join(sep, parts) ==
  IF parts = <<>> THEN ""
  ELSE IF Len(parts) = 1 THEN parts[1]
  ELSE Join(sep, SubSeq(parts, 1, Len(parts) - 1)) \o sep \o parts[Len(parts)]

\* s.split(sep), sep not empty
RECURSIVE Split(_, _)
Split(s, sep) ==
  IF ~Contains(s, sep) THEN <<s>>
  ELSE <<SubSeq(s, 1, SetMin(Occurrences(s, sep)) - 1)>>
       \o Split(From(s, SetMin(Occurrences(s, sep)) + Len(sep)), sep)

\* s.replace(old, new), old not empty
RECURSIVE Replace(_, _, _)
Replace(s, old, new) ==
  IF ~Contains(s, old) THEN s
  ELSE SubSeq(s, 1, SetMin(Occurrences(s, old)) - 1) \o new
       \o Replace(From(s, SetMin(Occurrences(s, old)) + Len(old)), old, new)

Whitespace == {" ", "\t", "\n", "\r", "\f"}

Inked(s) == {i \in 1..Len(s) : CharAt(s, i) \notin Whitespace}

\* "if s.strip()": s has a character that is not whitespace
IsBlank(s) == Inked(s) = {}

\* s.strip()
Strip(s) ==
  IF IsBlank(s) THEN ""
  ELSE SubSeq(s, SetMin(Inked(s)), CHOOSE i \in Inked(s) : \A j \in Inked(s) : j <= i)

\* s.lstrip(chars)
LStrip(s, chars) ==
  IF \A i \in 1..Len(s) : Contains(chars, CharAt(s, i)) THEN ""
  ELSE From(s, SetMin({i \in 1..Len(s) : ~Contains(chars, CharAt(s, i))}))

Lowercase == "abcdefghijklmnopqrstuvwxyz"

Uppercase == "ABCDEFGHIJKLMNOPQRSTUVWXYZ"

IsCased(c) == Contains(Lowercase, c) \/ Contains(Uppercase, c)

Upper(c) == IF Contains(Lowercase, c) THEN CharAt(Uppercase, SetMin(Occurrences(Lowercase, c))) ELSE c

Lower(c) == IF Contains(Uppercase, c) THEN CharAt(Lowercase, SetMin(Occurrences(Uppercase, c))) ELSE c

\* the i-th character of s.title(): a letter is upper case after a character
\* that is no letter, and lower case after a letter
TitleChar(s, i) ==
  IF i > 1 /\ IsCased(CharAt(s, i - 1)) THEN Lower(CharAt(s, i)) ELSE Upper(CharAt(s, i))

\* s.title()
Title(s) == Join("", [i \in 1..Len(s) |-> TitleChar(s, i)])

\* str(n), and f"{n:,}"
RECURSIVE Decimal(_)
Decimal(n) ==
  IF n < 0 THEN "-" \o Decimal(0 - n)
  ELSE IF n < 10 THEN DigitChar(n)
  ELSE Decimal(n \div 10) \o DigitChar(n % 10)

RECURSIVE Thousands(_)
Thousands(n) ==
  IF n < 1000 THEN Decimal(n)
  ELSE Thousands(n \div 1000) \o "," \o DigitChar((n \div 100) % 10)
       \o DigitChar((n \div 10) % 10) \o DigitChar(n % 10)

(***************************************************************************)
(* JSON values as json.loads gives them: a dict keeps the order of its     *)
(* keys.                                                                   *)
(***************************************************************************)
JNull == [k |-> "null"]

JBool(b) == [k |-> "bool", b |-> b]

JInt(n) == [k |-> "int", n |-> n]

JStr(s) == [k |-> "str", s |-> s]

JList(items) == [k |-> "list", items |-> items]

JDict(items) == [k |-> "dict", items |-> items]

Item(key, val) == [key |-> key, val |-> val]

\* a list of strings, as nbformat stores text
JLines(lines) == JList([i \in 1..Len(lines) |-> JStr(lines[i])])

\* key in d
Has(d, key) == \E i \in 1..Len(d.items) : d.items[i].key = key

\* d[key], the key being there
Get(d, key) == d.items[CHOOSE i \in 1..Len(d.items) : d.items[i].key = key].val

\* d.get(key, default)
GetOr(d, key, default) == IF Has(d, key) THEN Get(d, key) ELSE default

\* a slip: "d[key] = val", whether d holds the key or not
Overwrite(d, key, val) ==
  IF Has(d, key)
  THEN JDict([i \in 1..Len(d.items) |->
                IF d.items[i].key = key THEN Item(key, val) ELSE d.items[i]])
  ELSE JDict(Append(d.items, Item(key, val)))

\* d.setdefault(key, val): d afterwards
SetDefault(d, key, val) ==
  IF Has(d, key) THEN d ELSE JDict(Append(d.items, Item(key, val)))

\* d[key] = val for a key d holds: d afterwards
Put(d, key, val) ==
  JDict([i \in 1..Len(d.items) |->
           IF d.items[i].key = key THEN Item(key, val) ELSE d.items[i]])

\* json.dumps(v): ", " and ": " between items, ASCII text without escapes
RECURSIVE Dumps(_)
Dumps(v) ==
  CASE v.k = "null" -> "null"
    [] v.k = "bool" -> IF v.b THEN "true" ELSE "false"
    [] v.k = "int"  -> Decimal(v.n)
    [] v.k = "str"  -> "\"" \o v.s \o "\""
    [] v.k = "list" -> "[" \o Join(", ", [i \in 1..Len(v.items) |-> Dumps(v.items[i])]) \o "]"
    [] v.k = "dict" ->
         "{" \o Join(", ", [i \in 1..Len(v.items) |->
                               "\"" \o v.items[i].key \o "\": " \o Dumps(v.items[i].val)])
         \o "}"

\* "".join(v) for the list of strings v; a str joins to itself
JoinText(v) ==
  IF v.k = "str" THEN v.s ELSE Join("", [i \in 1..Len(v.items) |-> v.items[i].s])

(***************************************************************************)
(* extract_outputs, lines 43-120.  acc is the loop's state: the fragments  *)
(* appended to parts, the number of uuids drawn, and the exception raised. *)
(***************************************************************************)
PlotlyMime == "application/vnd.plotly.v1+json"

NoParts == [parts |-> <<>>, used |-> 0, raised |-> "none"]

Failed(acc, exc) == [acc EXCEPT !.raised = exc]

\* parts.append(html), after drawing the given number of uuids
Emit(acc, html, drawn) == [acc EXCEPT !.parts = Append(@, html), !.used = @ + drawn]

\* lines 53-64: what one line of a markdown cell appends to html_lines
Emits(line) ==
  \/ StartsWith(line, "### ")
  \/ StartsWith(line, "## ")
  \/ StartsWith(line, "# ")
  \/ StartsWith(line, "**") /\ EndsWith(line, "**")
  \/ StartsWith(line, "- ")
  \/ ~IsBlank(line)

\* a slip: the bold rule taking every line that starts with "**"
MarkdownLineBoldOpen(line) ==
  IF StartsWith(line, "### ") THEN "<h4>" \o From(line, 5) \o "</h4>"
  ELSE IF StartsWith(line, "## ") THEN "<h3>" \o From(line, 4) \o "</h3>"
  ELSE IF StartsWith(line, "# ") THEN "<h3>" \o From(line, 3) \o "</h3>"
  ELSE IF StartsWith(line, "**")
    THEN "<p><strong>" \o SubSeq(line, 3, Len(line) - 2) \o "</strong></p>"
  ELSE IF StartsWith(line, "- ") THEN "<li>" \o From(line, 3) \o "</li>"
  ELSE "<p>" \o line \o "</p>"

\* lines 53-64: the element a line that emits one is turned into
MarkdownLine(line) ==
  IF StartsWith(line, "### ") THEN "<h4>" \o From(line, 5) \o "</h4>"
  ELSE IF StartsWith(line, "## ") THEN "<h3>" \o From(line, 4) \o "</h3>"
  ELSE IF StartsWith(line, "# ") THEN "<h3>" \o From(line, 3) \o "</h3>"
  ELSE IF StartsWith(line, "**") /\ EndsWith(line, "**")
    THEN "<p><strong>" \o SubSeq(line, 3, Len(line) - 2) \o "</strong></p>"
  ELSE IF StartsWith(line, "- ") THEN "<li>" \o From(line, 3) \o "</li>"
  ELSE "<p>" \o line \o "</p>"

HtmlLines(lines) == [i \in 1..Len(lines) |-> MarkdownLine(lines[i])]

\* lines 50-65
MarkdownHtml(source) == Join("\n", HtmlLines(SelectSeq(Split(source, "\n"), Emits)))

\* a slip: the whole hex of the uuid, its cut to 12 digits forgotten
DivIdUncut(uuid) == "plotly-" \o uuid

\* line 79, uuid being uuid.uuid4().hex
DivId(uuid) == "plotly-" \o SubSeq(uuid, 1, 12)

\* lines 82-83
LayoutDefaults(layout) ==
  SetDefault(SetDefault(layout, "autosize", JBool(TRUE)), "margin", JDict(<<>>))

\* lines 84-87
MarginDefaults(margin) ==
  SetDefault(SetDefault(SetDefault(SetDefault(margin, "l", JInt(10)), "r", JInt(10)),
                        "t", JInt(40)), "b", JInt(10))

\* lines 89-96
PlotlyHtml(div_id, fig_data, fig_layout) ==
  "<div id=\"" \o div_id \o "\" class=\"plotly-graph-div\" style=\"width:100%;\"></div>\n"
  \o "<script type=\"text/javascript\">\n"
  \o "Plotly.newPlot(\"" \o div_id \o "\", " \o fig_data \o ", " \o fig_layout
  \o ", {\"responsive\": true, \"displayModeBar\": false});\n"
  \o "</script>"

\* lines 84-96, layout holding a margin
PlotlyWithMargin(acc, fig_data, layout, uuid) ==
  IF Get(layout, "margin").k # "dict" THEN Failed(acc, "AttributeError")
  ELSE Emit(acc,
            PlotlyHtml(DivId(uuid), fig_data,
                       Dumps(Put(layout, "margin", MarginDefaults(Get(layout, "margin"))))),
            1)

\* lines 82-96
PlotlyWithLayout(acc, fig_data, layout, uuid) ==
  IF layout.k # "dict" THEN Failed(acc, "AttributeError")
  ELSE PlotlyWithMargin(acc, fig_data, LayoutDefaults(layout), uuid)

\* lines 78-96
Plotly(acc, plotly_data, uuid) ==
  IF plotly_data.k # "dict" THEN Failed(acc, "AttributeError")
  ELSE PlotlyWithLayout(acc, Dumps(GetOr(plotly_data, "data", JList(<<>>))),
                        GetOr(plotly_data, "layout", JDict(<<>>)), uuid)

\* lines 99-103
HtmlFragment(html_content) ==
  IF Contains(html_content, "<table")
  THEN "<div class=\"table-wrapper\">" \o html_content \o "</div>"
  ELSE "<div class=\"output-html\">" \o html_content \o "</div>"

\* lines 106-113
ImageFragment(img_data) ==
  "<div class=\"output-image\"><img src=\"data:image/png;base64,"
  \o Strip(JoinText(img_data)) \o "\"></div>"

\* a slip: text/html looked for first
RichOutputHtmlFirst(acc, data, ids) ==
  IF Has(data, "text/html")
    THEN Emit(acc, HtmlFragment(JoinText(Get(data, "text/html"))), 0)
  ELSE IF Has(data, PlotlyMime) THEN Plotly(acc, Get(data, PlotlyMime), ids[acc.used + 1])
  ELSE IF Has(data, "image/png") THEN Emit(acc, ImageFragment(Get(data, "image/png")), 0)
  ELSE acc

\* lines 75-113
RichOutput(acc, data, ids) ==
  IF Has(data, PlotlyMime) THEN Plotly(acc, Get(data, PlotlyMime), ids[acc.used + 1])
  ELSE IF Has(data, "text/html")
    THEN Emit(acc, HtmlFragment(JoinText(Get(data, "text/html"))), 0)
  ELSE IF Has(data, "image/png") THEN Emit(acc, ImageFragment(Get(data, "image/png")), 0)
  ELSE acc

\* lines 116-118
StreamOutput(acc, text) ==
  IF ~IsBlank(text) THEN Emit(acc, "<pre class=\"output-text\">" \o text \o "</pre>", 0)
  ELSE acc

\* lines 72-118
OutputStep(acc, output, otype, ids) ==
  IF otype \in {"display_data", "execute_result"}
  THEN RichOutput(acc, GetOr(output, "data", JDict(<<>>)), ids)
  ELSE IF otype = "stream"
    THEN StreamOutput(acc, JoinText(GetOr(output, "text", JList(<<>>))))
  ELSE acc

\* line 71
RECURSIVE OutputsLoop(_, _, _, _)
OutputsLoop(acc, outputs, i, ids) ==
  IF i > Len(outputs) \/ acc.raised # "none" THEN acc
  ELSE OutputsLoop(OutputStep(acc, outputs[i], GetOr(outputs[i], "output_type", JStr("")).s, ids),
                   outputs, i + 1, ids)

\* lines 49-118
CellStep(acc, cell, ids) ==
  IF ~Has(cell, "cell_type") THEN Failed(acc, "KeyError")
  ELSE IF Get(cell, "cell_type") = JStr("markdown")
    THEN Emit(acc, MarkdownHtml(JoinText(GetOr(cell, "source", JList(<<>>)))), 0)
  ELSE IF Get(cell, "cell_type") # JStr("code") THEN acc
  ELSE OutputsLoop(acc, GetOr(cell, "outputs", JList(<<>>)).items, 1, ids)

\* line 48
RECURSIVE CellsLoop(_, _, _, _)
CellsLoop(acc, cells, i, ids) ==
  IF i > Len(cells) \/ acc.raised # "none" THEN acc
  ELSE CellsLoop(CellStep(acc, cells[i], ids), cells, i + 1, ids)

\* a file: absent, or holding text that is no JSON, or holding a JSON value
Missing == [exists |-> FALSE]

NotJson == [exists |-> TRUE, json |-> FALSE]

Notebook(value) == [exists |-> TRUE, json |-> TRUE, value |-> value]

\* line 120, or the exception on its way out
Fragment(acc) ==
  [html |-> IF acc.raised = "none" THEN Join("\n", acc.parts) ELSE "",
   raised |-> acc.raised, used |-> acc.used, parts |-> acc.parts]

\* lines 45-48
Loaded(nb, ids) ==
  IF nb.k # "dict" THEN Failed(NoParts, "AttributeError")
  ELSE CellsLoop(NoParts, GetOr(nb, "cells", JList(<<>>)).items, 1, ids)

\* extract_outputs(nb_path), the file at nb_path and the uuids uuid4 will give
extract_outputs(file, ids) ==
  IF ~file.exists THEN Fragment(Failed(NoParts, "FileNotFoundError"))
  ELSE IF ~file.json THEN Fragment(Failed(NoParts, "JSONDecodeError"))
  ELSE Fragment(Loaded(file.value, ids))

(***************************************************************************)
(* main, lines 123-325.  files is the notebooks directory: the file under  *)
(* each name of NOTEBOOKS.                                                 *)
(***************************************************************************)
\* the f-string of lines 150-320, up to the navigation items (lines 150-311)
DocumentHead ==
  "<!DOCTYPE html>\n" \o
  "<html lang=\"en\">\n" \o
  "<head>\n" \o
  "<meta charset=\"utf-8\">\n" \o
  "<meta name=\"viewport\" content=\"width=device-width, initial-scale=1\">\n" \o
  "<link rel=\"icon\" href=\"data:image/svg+xml,<svg xmlns='http://www.w3.org/2000/svg' viewBox='0 0 100 100'><text y='.9em' font-size='90'>????</text></svg>\">\n" \o
  "<title>Gun Violence Analysis ??? Full Report</title>\n" \o
  "<script src=\"https://cdn.plot.ly/plotly-2.35.2.min.js\"></script>\n" \o
  "<style>\n" \o
  "    * {\n" \o
  "        box-sizing: border-box;\n" \o
  "    }\n" \o
  "    body {\n" \o
  "        font-family: -apple-system, BlinkMacSystemFont, \"Segoe UI\", Helvetica, Arial, sans-serif;\n" \o
  "        max-width: 1200px;\n" \o
  "        margin: 0 auto;\n" \o
  "        padding: 20px;\n" \o
  "        background: #fafafa;\n" \o
  "        color: #333;\n" \o
  "    }\n" \o
  "    h1 {\n" \o
  "        text-align: center;\n" \o
  "        color: #2c3e50;\n" \o
  "        border-bottom: 3px solid #e74c3c;\n" \o
  "        padding-bottom: 15px;\n" \o
  "        font-size: clamp(1.4rem, 4vw, 2rem);\n" \o
  "    }\n" \o
  "    nav {\n" \o
  "        display: flex;\n" \o
  "        flex-wrap: wrap;\n" \o
  "        justify-content: center;\n" \o
  "        gap: 8px 16px;\n" \o
  "        margin: 20px 0 30px;\n" \o
  "        padding: 15px;\n" \o
  "        background: #fff;\n" \o
  "        border-radius: 8px;\n" \o
  "        box-shadow: 0 1px 3px rgba(0,0,0,0.1);\n" \o
  "    }\n" \o
  "    nav a {\n" \o
  "        color: #e74c3c;\n" \o
  "        text-decoration: none;\n" \o
  "        font-weight: 600;\n" \o
  "        font-size: 14px;\n" \o
  "        white-space: nowrap;\n" \o
  "    }\n" \o
  "    nav a:hover {\n" \o
  "        text-decoration: underline;\n" \o
  "    }\n" \o
  "    .section-title {\n" \o
  "        color: #2c3e50;\n" \o
  "        border-left: 4px solid #e74c3c;\n" \o
  "        padding-left: 12px;\n" \o
  "        font-size: clamp(1.1rem, 3vw, 1.5rem);\n" \o
  "    }\n" \o
  "    section {\n" \o
  "        background: #fff;\n" \o
  "        padding: 25px;\n" \o
  "        margin: 20px 0;\n" \o
  "        border-radius: 8px;\n" \o
  "        box-shadow: 0 1px 3px rgba(0,0,0,0.1);\n" \o
  "        overflow: hidden;\n" \o
  "    }\n" \o
  "    .notebook-content img {\n" \o
  "        max-width: 100%;\n" \o
  "        height: auto;\n" \o
  "        display: block;\n" \o
  "        margin: 0 auto;\n" \o
  "    }\n" \o
  "    .output-text {\n" \o
  "        background: #f5f5f5;\n" \o
  "        padding: 10px;\n" \o
  "        border-radius: 4px;\n" \o
  "        overflow-x: auto;\n" \o
  "        font-size: 13px;\n" \o
  "        white-space: pre-wrap;\n" \o
  "        word-break: break-word;\n" \o
  "    }\n" \o
  "    .table-wrapper {\n" \o
  "        overflow-x: auto;\n" \o
  "        -webkit-overflow-scrolling: touch;\n" \o
  "        margin: 10px 0;\n" \o
  "    }\n" \o
  "    .notebook-content table {\n" \o
  "        border-collapse: collapse;\n" \o
  "        font-size: 13px;\n" \o
  "        min-width: 400px;\n" \o
  "    }\n" \o
  "    .notebook-content table th,\n" \o
  "    .notebook-content table td {\n" \o
  "        border: 1px solid #ddd;\n" \o
  "        padding: 6px 10px;\n" \o
  "        text-align: right;\n" \o
  "        white-space: nowrap;\n" \o
  "    }\n" \o
  "    .notebook-content table th {\n" \o
  "        background: #f0f0f0;\n" \o
  "        position: sticky;\n" \o
  "        top: 0;\n" \o
  "        z-index: 1;\n" \o
  "    }\n" \o
  "    .output-image {\n" \o
  "        text-align: center;\n" \o
  "        margin: 15px 0;\n" \o
  "        overflow-x: auto;\n" \o
  "    }\n" \o
  "    .output-html {\n" \o
  "        margin: 15px 0;\n" \o
  "        overflow-x: auto;\n" \o
  "    }\n" \o
  "    hr {\n" \o
  "        border: none;\n" \o
  "        border-top: 1px solid #eee;\n" \o
  "        margin: 30px 0;\n" \o
  "    }\n" \o
  "    .plotly-graph-div {\n" \o
  "        margin: 15px 0;\n" \o
  "        min-height: 350px;\n" \o
  "    }\n" \o
  "    footer {\n" \o
  "        text-align: center;\n" \o
  "        color: #999;\n" \o
  "        font-size: 13px;\n" \o
  "        margin-top: 40px;\n" \o
  "        padding: 20px;\n" \o
  "    }\n" \o
  "    @media (max-width: 768px) {\n" \o
  "        body {\n" \o
  "            padding: 10px;\n" \o
  "        }\n" \o
  "        section {\n" \o
  "            padding: 12px;\n" \o
  "            margin: 10px 0;\n" \o
  "            border-radius: 6px;\n" \o
  "        }\n" \o
  "        nav {\n" \o
  "            padding: 10px;\n" \o
  "            gap: 6px 12px;\n" \o
  "        }\n" \o
  "        nav a {\n" \o
  "            font-size: 13px;\n" \o
  "        }\n" \o
  "        .plotly-graph-div {\n" \o
  "            min-height: 300px;\n" \o
  "        }\n" \o
  "        .notebook-content table {\n" \o
  "            font-size: 11px;\n" \o
  "        }\n" \o
  "        .notebook-content table th,\n" \o
  "        .notebook-content table td {\n" \o
  "            padding: 4px 6px;\n" \o
  "        }\n" \o
  "        .output-text {\n" \o
  "            font-size: 11px;\n" \o
  "            padding: 8px;\n" \o
  "        }\n" \o
  "    }\n" \o
  "</style>\n" \o
  "</head>\n" \o
  "<body>\n" \o
  "<h1>Gun Violence Analysis ??? Country-Level &amp; US County-Level Report</h1>\n" \o
  "<nav>\n" \o
  "    "

\* between the navigation items and the sections (lines 311-314)
DocumentMiddle ==
  "\n" \o
  "</nav>\n" \o
  "\n"

\* after the sections (lines 314-320)
DocumentFoot ==
  "\n" \o
  "\n" \o
  "<footer>\n" \o
  "    Generated from Jupyter notebooks. Data sources: World Bank, UNODC, Census ACS, CDC WONDER, FBI UCR, RAND, Giffords Law Center, Gun Violence Archive, SAMHSA NSDUH.\n" \o
  "</footer>\n" \o
  "</body>\n" \o
  "</html>"

\* what UTF-8 needs beyond one byte a character, for the characters of the
\* template outside ASCII (lines 155, 156 and 309)
TemplateWideBytes == 15

\* DOCS_DIR / "report.html", from ROOT
OutPath == "docs/report.html"

\* a slip: the test of line 127 left out
IsListed(file) == TRUE

\* nb_path.exists(), line 127
IsThere(file) == file.exists

\* lines 133-135
SectionTitle(nb_name) ==
  LStrip(Title(Replace(Replace(nb_name, ".ipynb", ""), "_", " ")), "0123456789 ")

NoSections ==
  [sections |-> <<>>, printed |-> <<>>, used |-> 0, raised |-> "none", reads |-> <<>>]

\* nb_path.read_text(), line 45 under the call of line 131
Reading(acc, nb_name) == [acc EXCEPT !.reads = Append(@, nb_name)]

\* a slip: the prints of the loop left out
SayNothing(acc, text) == acc

\* print(text), lines 128 and 130
Say(acc, text) == [acc EXCEPT !.printed = Append(@, Message(text))]

\* a slip: the test of line 132 left out, an empty fragment kept as a section
AfterExtractKeepingEmpty(acc, nb_name, e) ==
  IF e.raised # "none" THEN [acc EXCEPT !.raised = e.raised]
  ELSE [acc EXCEPT !.used = @ + e.used,
                   !.sections = Append(@, [title |-> SectionTitle(nb_name),
                                           fragment |-> e.html])]

\* lines 131-136, e being what extract_outputs gave
AfterExtract(acc, nb_name, e) ==
  IF e.raised # "none" THEN [acc EXCEPT !.raised = e.raised]
  ELSE IF e.html # ""
    THEN [acc EXCEPT !.used = @ + e.used,
                     !.sections = Append(@, [title |-> SectionTitle(nb_name),
                                             fragment |-> e.html])]
  ELSE [acc EXCEPT !.used = @ + e.used]

\* lines 126-136
NotebookStep(acc, nb_name, file, ids) ==
  IF ~IsThere(file) THEN Say(acc, "Skipping " \o nb_name \o " (not found)")
  ELSE AfterExtract(Reading(Say(acc, "Extracting outputs from " \o nb_name \o " ..."), nb_name),
                    nb_name,
                    extract_outputs(file, SubSeq(ids, acc.used + 1, Len(ids))))

\* line 125
RECURSIVE Walk(_, _, _, _)
Walk(acc, files, i, ids) ==
  IF i > Len(NOTEBOOKS) \/ acc.raised # "none" THEN acc
  ELSE Walk(NotebookStep(acc, NOTEBOOKS[i], files[NOTEBOOKS[i]], ids), files, i + 1, ids)

\* line 141, i counting from 0
Slug(i) == "section-" \o Decimal(i)

\* a slip: the anchors numbered from 1
NavItemFromOne(i, title) == "<a href=\"#" \o Slug(i + 1) \o "\">" \o title \o "</a>"

\* line 142
NavItem(i, title) == "<a href=\"#" \o Slug(i) \o "\">" \o title \o "</a>"

\* lines 143-148
ContentSection(i, title, fragment) ==
  "<section id=\"" \o Slug(i) \o "\">\n"
  \o "<h2 class=\"section-title\">" \o title \o "</h2>\n"
  \o "<div class=\"notebook-content\">" \o fragment \o "</div>\n"
  \o "</section>\n<hr>\n"

\* lines 138-320
NavItems(sections) == [i \in 1..Len(sections) |-> NavItem(i - 1, sections[i].title)]

ContentSections(sections) ==
  [i \in 1..Len(sections) |-> ContentSection(i - 1, sections[i].title, sections[i].fragment)]

\* main's lists as they stand when it ends
Locals(reads, nav_items, content_sections) ==
  [reads |-> reads, nav_items |-> nav_items, content_sections |-> content_sections,
   parts |-> <<>>]

\* extract_outputs's, called on its own: the file it read and its list of parts
ExtractLocals(nb_name, parts) == [Locals(<<nb_name>>, <<>>, <<>>) EXCEPT !.parts = parts]

NoLocals == Locals(<<>>, <<>>, <<>>)

Document(sections) ==
  DocumentHead
  \o Join("", NavItems(sections))
  \o DocumentMiddle
  \o Join("", ContentSections(sections))
  \o DocumentFoot

\* out_path.stat().st_size
FileSize(html) == Len(html) + TemplateWideBytes

\* lines 322-325
Written(acc, html) ==
  [raised |-> "none", report |-> <<html>>, writes |-> 1,
   locals |-> Locals(acc.reads, NavItems(acc.sections), ContentSections(acc.sections)),
   printed |-> acc.printed
               \o <<Message("\nWrote combined report to " \o OutPath),
                    Message("  File size: " \o Thousands(FileSize(html)) \o " bytes")>>]

\* a slip: what was collected is written even when a notebook failed
EndedWritingAnyway(acc, old) ==
  IF acc.raised # "none"
  THEN [raised |-> acc.raised, report |-> <<Document(acc.sections)>>, writes |-> 1,
        printed |-> acc.printed, locals |-> Locals(acc.reads, <<>>, <<>>)]
  ELSE Written(acc, Document(acc.sections))

\* the end of main, acc being the loop's state and old the report file before
Ended(acc, old) ==
  IF acc.raised # "none"
  THEN [raised |-> acc.raised, report |-> old, writes |-> 0, printed |-> acc.printed,
        locals |-> Locals(acc.reads, <<>>, <<>>)]
  ELSE Written(acc, Document(acc.sections))

\* main(): the exception, the report file, the writes made, the lines printed
\* and the lists built
main(files, ids, old) == Ended(Walk(NoSections, files, 1, ids), old)

(***************************************************************************)
(* The notebooks a run may find.                                           *)
(***************************************************************************)
MaxNotebooks == 2

Cell(type, fields) == JDict(<<Item("cell_type", JStr(type))>> \o fields)

Markdown(lines) == Cell("markdown", <<Item("source", JLines(lines))>>)

Code(outputs) == Cell("code", <<Item("source", JLines(<<"fig">>)), Item("outputs", JList(outputs))>>)

Output(type, fields) == JDict(<<Item("output_type", JStr(type))>> \o fields)

Display(type, data) == Output(type, <<Item("data", JDict(data))>>)

Stream(lines) == Output("stream", <<Item("name", JStr("stdout")), Item("text", JLines(lines))>>)

Cells(cells) == Notebook(JDict(<<Item("cells", JList(cells)), Item("nbformat", JInt(4))>>))

Untyped == Cells(<<Markdown(<<"# Intro">>), JDict(<<Item("source", JLines(<<"x">>))>>)>>)

NoCells == Notebook(JDict(<<Item("nbformat", JInt(4))>>))

Blank == Cells(<<Markdown(<<"\n", "  ">>), Code(<<Stream(<<" \n">>)>>)>>)

TwoBlank == Cells(<<Markdown(<<>>), Cell("markdown", <<>>)>>)

Prose ==
  Cells(<<Markdown(<<"# Title\n", "## Sub\n", "### Subsub\n", "**Bold**\n", "- item\n",
                     "plain\n", "\n", "#nospace\n", "**open\n", "- \n", " # indented\n",
                     "  \n", "***\n", "**">>),
          Cell("raw", <<Item("source", JLines(<<"raw">>))>>)>>)

Tables ==
  Cells(<<Code(<<Display("execute_result",
                         <<Item("text/plain", JLines(<<"   a\n", "0  1">>)),
                           Item("text/html", JLines(<<"<table border=\"1\">\n",
                                                      "<tr><td>1</td></tr></table>">>)),
                           Item("image/png", JStr("AAAA"))>>),
                 Display("display_data", <<Item("text/html", JLines(<<"<b>note</b>">>))>>),
                 Stream(<<"rows: ", "1\n">>),
                 Output("error", <<Item("ename", JStr("ValueError"))>>)>>)>>)

Images ==
  Cells(<<Code(<<Display("display_data", <<Item("image/png", JStr("iVBORw0KGgo=\n"))>>),
                 Display("display_data", <<Item("image/png", JLines(<<"iVBOR", "w0KGgo=\n">>))>>),
                 Display("execute_result", <<Item("text/plain", JLines(<<"<Figure>">>))>>),
                 JDict(<<Item("text", JLines(<<"untyped">>))>>)>>)>>)

Chart ==
  Cells(<<Code(<<Display("display_data",
                         <<Item("text/html", JLines(<<"<div>chart</div>">>)),
                           Item(PlotlyMime,
                                JDict(<<Item("data",
                                             JList(<<JDict(<<Item("type", JStr("bar"))>>)>>))>>))>>)>>)>>)

StyledChart ==
  Cells(<<Markdown(<<"## Map">>),
          Code(<<Display("display_data",
                         <<Item(PlotlyMime,
                                JDict(<<Item("data", JList(<<>>)),
                                        Item("layout",
                                             JDict(<<Item("title", JStr("Map")),
                                                     Item("autosize", JBool(FALSE)),
                                                     Item("margin",
                                                          JDict(<<Item("t", JInt(80))>>))>>))>>))>>)>>)>>)

NotebookSamples ==
  {NotJson, Untyped, NoCells, Blank, TwoBlank, Prose, Tables, Images, Chart, StyledChart}

\* uuid.uuid4().hex: any of these
Uuids == {"3f2b8c1d9e4a4f6b8a7c5d2e1f0a9b8c", "a17e05d2c94b4e3f9d6081b7f3c2e5a4"}

\* how many uuids the extraction of a file can draw: its Plotly outputs
ChartsIn(outputs) == Cardinality({i \in 1..Len(outputs) :
                                   Has(GetOr(outputs[i], "data", JDict(<<>>)), PlotlyMime)})

ChartsOf(cell) == ChartsIn(GetOr(cell, "outputs", JList(<<>>)).items)

RECURSIVE SumOver(_)
SumOver(ns) == IF ns = <<>> THEN 0 ELSE Head(ns) + SumOver(Tail(ns))

ChartsOfNotebook(cells) == SumOver([i \in 1..Len(cells) |-> ChartsOf(cells[i])])

Charts(file) ==
  IF file.exists /\ file.json
  THEN ChartsOfNotebook(GetOr(file.value, "cells", JList(<<>>)).items)
  ELSE 0

ChartsUnder(files) == SumOver([i \in 1..Len(NOTEBOOKS) |-> Charts(files[NOTEBOOKS[i]])])

\* the notebooks directory with no file in it
NoFiles == [name \in {NOTEBOOKS[i] : i \in 1..Len(NOTEBOOKS)} |-> Missing]

Position(name) == CHOOSE i \in 1..Len(NOTEBOOKS) : NOTEBOOKS[i] = name

\* the directories with files under the first names of the list only
FileSystems ==
  {[name \in DOMAIN NoFiles |->
      IF Position(name) <= MaxNotebooks THEN found[Position(name)] ELSE Missing] :
   found \in [1..MaxNotebooks -> {Missing} \cup NotebookSamples]}

(***************************************************************************)
(* The calls a client of data_utils.py makes, one action per function.     *)
(***************************************************************************)
NoCall == [fn |-> "none", args |-> <<>>]

Init ==
  /\ tableWrites = <<>>
  /\ pc = "idle"
  /\ call = NoCall
  /\ served = <<>>
  /\ requests = <<>>
  /\ result = DataFrameOfRows(<<>>)
  /\ raised = "none"
  /\ printed = <<>>
  /\ fs = NoFiles
  /\ report = <<>>
  /\ reportWrites = 0
  /\ earlier = <<>>
  /\ locals = NoLocals
  /\ preceded = FALSE

\* a slip: fetch_population keeping the first live row in its table
WritesCachingPopulation(fn, r) ==
  IF fn = "fetch_population" /\ r.df.rows # <<>>
  THEN <<[table |-> "population",
          entry |-> [code |-> r.df.rows[1].country_code, kind |-> "pair",
                     name |-> "cached", num |-> r.df.rows[1].population]]>>
  ELSE <<>>

\* the assignments a call makes to the module-level dicts: the functions only
\* iterate over them (.items()), none assigns to one
WritesOf(fn, r) == <<>>

\* a call returns (or raises): r is [df, raised, printed, requests]
Finish(fn, args, resps, r) ==
  /\ pc = "idle"
  /\ pc' = "returned"
  /\ call' = [fn |-> fn, args |-> args]
  /\ served' = resps
  /\ requests' = r.requests
  /\ result' = r.df
  /\ raised' = r.raised
  /\ printed' = r.printed
  /\ tableWrites' = tableWrites \o WritesOf(fn, r)
  /\ UNCHANGED <<fs, report, reportWrites, earlier, locals, preceded>>

\* the caller is done with the outcome of the call and may call again; the
\* module-level state stays as the call left it, and preceded tells that a
\* function of data_utils.py has been called
Discard ==
  /\ pc = "returned"
  /\ pc' = "idle"
  /\ call' = NoCall
  /\ served' = <<>>
  /\ requests' = <<>>
  /\ result' = DataFrameOfRows(<<>>)
  /\ raised' = "none"
  /\ printed' = <<>>
  /\ reportWrites' = 0
  /\ locals' = NoLocals
  /\ preceded' = (preceded \/ call.fn \notin {"extract_outputs", "main"})
  /\ UNCHANGED <<tableWrites, fs, report, earlier>>

\* a caller's first call draws from all the inputs; the calls it makes after
\* that draw from the shorter record lists and the shorter year ranges
LaterRecords == 1

LaterYears == 2

LaterResponses ==
  OddResponses \cup {Envelope(m, l) : m \in Metas, l \in RecordLists(LaterRecords)}

FetchWorldBankIndicator ==
  /\ pc = "idle"
  /\ \E indicator \in Indicators, year \in Years,
        resp \in IF preceded THEN LaterResponses ELSE IndicatorResponses :
       Finish("fetch_world_bank_indicator", <<indicator, StrOfNat(year)>>, <<resp>>,
              fetch_world_bank_indicator(indicator, StrOfNat(year), resp))

FetchPopulation ==
  /\ pc = "idle"
  /\ \E year \in Years, resp \in PopulationResponses :
       Finish("fetch_population", <<StrOfNat(year)>>, <<resp>>,
              fetch_population(StrOfNat(year), resp, CurrentTables(tableWrites)))

\* the answers a call consumed: one per request, the years descending from end
ServedTo(r, respOf, end) == [i \in 1..Len(r.requests) |-> respOf[end + 1 - i]]

FinishGini(year_range, respOf, tie, end, r) ==
  Finish("fetch_gini", <<year_range, tie>>, ServedTo(r, respOf, end), r)

FetchGini ==
  /\ pc = "idle"
  /\ \E start \in Years, end \in Years, tie \in TieOrders :
       /\ preceded => end - start < LaterYears
       /\ \E kinds \in [start..end -> GiniKinds] :
            LET respOf == [y \in start..end |-> GiniResponse(kinds[y], y)]
            IN  FinishGini(YearRange(start, end), respOf, tie, end,
                           fetch_gini(YearRange(start, end), respOf, tie,
                                      CurrentTables(tableWrites)))

GetGunHomicideRates ==
  /\ pc = "idle"
  /\ Finish("get_gun_homicide_rates", <<>>, <<>>, get_gun_homicide_rates(CurrentTables(tableWrites)))

GetDrugOffenseRates ==
  /\ pc = "idle"
  /\ Finish("get_drug_offense_rates", <<>>, <<>>, get_drug_offense_rates(CurrentTables(tableWrites)))

GetGunOwnershipRates ==
  /\ pc = "idle"
  /\ Finish("get_gun_ownership_rates", <<>>, <<>>, get_gun_ownership_rates(CurrentTables(tableWrites)))

GetGunControlStrictness ==
  /\ pc = "idle"
  /\ Finish("get_gun_control_strictness", <<>>, <<>>, get_gun_control_strictness(CurrentTables(tableWrites)))

GetCountryRegions ==
  /\ pc = "idle"
  /\ Finish("get_country_regions", <<>>, <<>>, get_country_regions(CurrentTables(tableWrites)))

Next ==
  \/ FetchWorldBankIndicator
  \/ FetchPopulation
  \/ FetchGini
  \/ GetGunHomicideRates
  \/ GetDrugOffenseRates
  \/ GetGunOwnershipRates
  \/ GetGunControlStrictness
  \/ GetCountryRegions
  \/ Discard

Spec == Init /\ [][Next]_vars

(***************************************************************************)
(* The runs of scripts/generate_html.py over a notebooks directory, which  *)
(* no step changes.                                                        *)
(***************************************************************************)
\* docs/report.html as an earlier run may have left it
StaleReport == "<!DOCTYPE html>\n<html lang=\"en\">\n<body>\nan earlier report\n</body>\n</html>"

ReportInit ==
  /\ tableWrites = <<>>
  /\ pc = "idle"
  /\ call = NoCall
  /\ served = <<>>
  /\ requests = <<>>
  /\ result = DataFrameOfRows(<<>>)
  /\ raised = "none"
  /\ printed = <<>>
  /\ fs \in FileSystems
  /\ report \in {<<>>, <<StaleReport>>}
  /\ reportWrites = 0
  /\ earlier = <<>>
  /\ locals = NoLocals
  /\ preceded = FALSE

\* the first fragment extract_outputs returned is kept, to compare later ones with
Remembered(nb_name, e) ==
  IF earlier = <<>> /\ e.raised = "none" THEN <<[name |-> nb_name, html |-> e.html]>>
  ELSE earlier

\* extract_outputs returns (or raises) e
FinishExtract(nb_name, e) ==
  /\ pc' = "returned"
  /\ call' = [fn |-> "extract_outputs", args |-> <<nb_name>>]
  /\ result' = e.html
  /\ raised' = e.raised
  /\ earlier' = Remembered(nb_name, e)
  /\ locals' = ExtractLocals(nb_name, e.parts)
  /\ UNCHANGED <<tableWrites, served, requests, printed, fs, report, reportWrites, preceded>>

ExtractOutputs ==
  /\ pc = "idle"
  /\ \E i \in 1..MaxNotebooks :
       \E ids \in [1..Charts(fs[NOTEBOOKS[i]]) -> Uuids] :
         FinishExtract(NOTEBOOKS[i], extract_outputs(fs[NOTEBOOKS[i]], ids))

\* main returns (or raises): m is [raised, report, writes, printed]
FinishMain(m) ==
  /\ pc' = "returned"
  /\ call' = [fn |-> "main", args |-> <<>>]
  /\ raised' = m.raised
  /\ printed' = m.printed
  /\ report' = m.report
  /\ reportWrites' = m.writes
  /\ locals' = m.locals
  /\ UNCHANGED <<tableWrites, served, requests, result, fs, earlier, preceded>>

Main ==
  /\ pc = "idle"
  /\ \E ids \in [1..ChartsUnder(fs) -> Uuids] : FinishMain(main(fs, ids, report))

ReportNext ==
  \/ ExtractOutputs
  \/ Main
  \/ Discard

ReportSpec == ReportInit /\ [][ReportNext]_vars

(***************************************************************************)
(* What the claims speak of, stated on the API's answer itself.            *)
(***************************************************************************)
\* the envelope is the documented one: a 2xx JSON answer that is a list of at
\* least two elements, the second a list of records
WellFormed(resp) ==
  /\ resp.net = "ok"
  /\ resp.code >= 200 /\ resp.code < 300
  /\ resp.body.json
  /\ resp.body.data.k = "list"
  /\ resp.body.data.n >= 2
  /\ resp.body.data.items[2].k = "list"

RecordsOf(resp) == resp.body.data.items[2].recs

HasValue(e) == e.value.k \in {"num", "str"}

\* the record cannot be processed: it is no object, its country is null or no
\* object, its country id is no string although it has a value, or it has a
\* three-letter id and a value that is no number
Unprocessable(e) ==
  \/ e.k # "dict"
  \/ e.country.k \in {"null", "scalar"}
  \/ HasValue(e) /\ e.country.k = "dict" /\ e.country.id.k \in {"null", "num"}
  \/ /\ e.value.k = "str" /\ ~FloatOfString(e.value.chars).ok
     /\ e.country.k = "dict" /\ e.country.id.k = "str" /\ Len(e.country.id.s) = 3

\* a record of a three-letter country with a non-null value
Selected(e) ==
  /\ e.k = "dict" /\ e.country.k = "dict"
  /\ e.country.id.k = "str" /\ Len(e.country.id.s) = 3
  /\ HasValue(e)

\* the request, the parsing and every record went through
Succeeds(resp) ==
  WellFormed(resp) /\ \A i \in 1..Len(RecordsOf(resp)) : ~Unprocessable(RecordsOf(resp)[i])

NameOf(e) == IF e.country.name.k = "missing" THEN StrId("") ELSE e.country.name

ValueOf(e) == IF e.value.k = "str" THEN FloatOfString(e.value.chars).num
              ELSE [e.value.num EXCEPT !.ty = "float"]

\* one row per selected record, in response order
SelectedRows(resp) ==
  LET sel == SelectSeq(RecordsOf(resp), Selected)
  IN  [i \in 1..Len(sel) |->
         [country_code |-> sel[i].country.id.s, country_name |-> NameOf(sel[i]),
          value |-> ValueOf(sel[i])]]

\* the rows the fetcher owes its caller for an answer
OwedRows(resp) == IF Succeeds(resp) THEN SelectedRows(resp) ELSE <<>>

After(fn) == pc = "returned" /\ call.fn = fn

SameRows(rows, table, column) ==
  /\ Len(rows) = Len(table)
  /\ \A i \in 1..Len(table) :
       /\ DOMAIN rows[i] = {"country_code", "country_name", column}
       /\ rows[i].country_code = table[i].code
       /\ rows[i].country_name = StrId(table[i].name)
       /\ rows[i][column] = table[i].num

C2_FailurePrintsDiagnostic ==
  After("fetch_world_bank_indicator") /\ ~WellFormed(served[1]) =>
    FrameLen(result) = 0 /\ printed # <<>>

(***************************************************************************)
(* C3.  On a successful response the table holds exactly one row per       *)
(* record whose country id has length 3 and whose value is non-null (0 is  *)
(* kept), in response order, and no other row.                             *)
(***************************************************************************)
C3_RowsAreTheSelectedRecords ==
  After("fetch_world_bank_indicator") /\ Succeeds(served[1]) =>
    result.rows = SelectedRows(served[1])

\* a zero value is kept while the other record of the response is dropped
C3_Witness ==
  /\ After("fetch_world_bank_indicator") /\ Succeeds(served[1])
  /\ Len(RecordsOf(served[1])) = 2
  /\ FrameLen(result) = 1
  /\ result.rows[1].value = Flt(0, 0)

(***************************************************************************)
(* C4.  fetch_population returns the live rows, the value column renamed   *)
(* to population, when the fetcher returns at least 100 rows, and the      *)
(* embedded population table otherwise: 100 rows are live, 99 fall back,   *)
(* and the result is never a mixture of the two.                           *)
(***************************************************************************)
AsPopulation(rows) ==
  [i \in 1..Len(rows) |->
     [country_code |-> rows[i].country_code, country_name |-> rows[i].country_name,
      population |-> rows[i].value]]

C4_PopulationLiveOrFallback ==
  After("fetch_population") =>
    /\ raised = "none"
    /\ IF Len(OwedRows(served[1])) >= PopulationThreshold
       THEN /\ result.rows = AsPopulation(OwedRows(served[1]))
            /\ result.columns = <<"country_code", "country_name", "population">>
       ELSE SameRows(result.rows, _POPULATION_FALLBACK, "population")

\* exactly 100 live rows came back, and they are the result
C4_Witness ==
  /\ After("fetch_population")
  /\ Len(OwedRows(served[1])) = PopulationThreshold
  /\ FrameLen(result) = PopulationThreshold
  /\ result.rows[1].population = Reported(LastYear, 0)
  /\ ~SameRows(result.rows, _POPULATION_FALLBACK, "population")

(***************************************************************************)
(* C5.  For both wrappers, whenever the API returns fewer rows than the    *)
(* threshold (100 for fetch_population, 50 for fetch_gini), whatever it    *)
(* answered or however it failed, the result is exactly the corresponding  *)
(* embedded table: one row per entry, with its code, name and value.       *)
(***************************************************************************)
\* the year a request asked for
YearOfRequest(i) == DecimalValue(requests[i].date)

\* the rows the API gave over the years fetched, each with its year
GiniOwed ==
  [i \in 1..Len(served) |-> [year |-> YearOfRequest(i), rows |-> OwedRows(served[i])]]

CodesIn(owed) ==
  UNION {{owed[i].rows[j].country_code : j \in 1..Len(owed[i].rows)} : i \in 1..Len(owed)}

GiniCodes == CodesIn(GiniOwed)

C5_BelowThresholdIsFallback ==
  /\ After("fetch_population") /\ Len(OwedRows(served[1])) < PopulationThreshold
       => raised = "none" /\ SameRows(result.rows, _POPULATION_FALLBACK, "population")
  /\ After("fetch_gini") /\ Cardinality(GiniCodes) < GiniThreshold
       => raised = "none" /\ SameRows(result.rows, _GINI_FALLBACK, "gini")

\* the API gave rows for 49 countries, in more than one year, and the result is
\* the Gini table
C5_Witness ==
  /\ After("fetch_gini")
  /\ Len(served) > 1
  /\ Cardinality(GiniCodes) = GiniThreshold - 1
  /\ SameRows(result.rows, _GINI_FALLBACK, "gini")

(***************************************************************************)
(* C6.  On fetch_gini's live path, every country code that appears in any  *)
(* fetched year has a single row, and that row carries the value reported  *)
(* for the highest year in which the country appeared.                     *)
(***************************************************************************)
YearsOf(code, owed) ==
  {owed[i].year : i \in {k \in 1..Len(owed) :
                           \E j \in 1..Len(owed[k].rows) : owed[k].rows[j].country_code = code}}

ValuesOf(code, year, owed) ==
  UNION {{owed[i].rows[j].value : j \in {k \in 1..Len(owed[i].rows) :
                                           owed[i].rows[k].country_code = code}} :
         i \in {k \in 1..Len(owed) : owed[k].year = year}}

RowsFor(code) == {i \in 1..Len(result.rows) : result.rows[i].country_code = code}

LatestWins(owed) ==
  \A code \in CodesIn(owed) :
    /\ Cardinality(RowsFor(code)) = 1
    /\ \A i \in RowsFor(code) :
         result.rows[i].gini \in ValuesOf(code, SetMax(YearsOf(code, owed)), owed)

C6_LatestYearWins ==
  After("fetch_gini") /\ Cardinality(GiniCodes) >= GiniThreshold => LatestWins(GiniOwed)

\* the live path, with a country reported in two years with different values
C6_Witness ==
  /\ After("fetch_gini")
  /\ Cardinality(GiniCodes) >= GiniThreshold
  /\ \E code \in GiniCodes : Cardinality(YearsOf(code, GiniOwed)) > 1
  /\ FrameLen(result) = Cardinality(GiniCodes)

(***************************************************************************)
(* C7.  get_gun_homicide_rates, get_drug_offense_rates,                    *)
(* get_gun_ownership_rates, get_gun_control_strictness and                 *)
(* get_country_regions issue no network request and return exactly one row *)
(* per entry of their embedded table, with its code and values.            *)
(***************************************************************************)
SameRegions(rows, table) ==
  /\ Len(rows) = Len(table)
  /\ \A i \in 1..Len(table) :
       rows[i] = [country_code |-> table[i].code, region |-> table[i].str]

C7_TableReadersReadTheirTable ==
  /\ After("get_gun_homicide_rates")
       => /\ requests = <<>> /\ raised = "none"
          /\ SameRows(result.rows, _GUN_HOMICIDE_FALLBACK, "gun_homicide_rate")
  /\ After("get_drug_offense_rates")
       => /\ requests = <<>> /\ raised = "none"
          /\ SameRows(result.rows, _DRUG_OFFENSE_FALLBACK, "drug_offense_rate")
  /\ After("get_gun_ownership_rates")
       => /\ requests = <<>> /\ raised = "none"
          /\ SameRows(result.rows, _GUN_OWNERSHIP_FALLBACK, "guns_per_100")
  /\ After("get_gun_control_strictness")
       => /\ requests = <<>> /\ raised = "none"
          /\ SameRows(result.rows, _GUN_CONTROL_STRICTNESS_FALLBACK, "gun_control_strictness")
  /\ After("get_country_regions")
       => /\ requests = <<>> /\ raised = "none"
          /\ SameRegions(result.rows, _COUNTRY_REGIONS)

\* the drug-offense table was read: its first and last entries are the rows
C7_Witness ==
  /\ After("get_drug_offense_rates")
  /\ FrameLen(result) = Len(_DRUG_OFFENSE_FALLBACK)
  /\ result.rows[1].country_code = "ALB"
  /\ result.rows[FrameLen(result)].country_code = "ZWE"

(***************************************************************************)
(* C8.  As claimed: in all embedded tables every value is a pair           *)
(* (name, number) with a non-negative number, which in the gun-control     *)
(* strictness table is an integer from 1 to 5.                             *)
(***************************************************************************)
IsNamedAmount(entry) ==
  /\ entry.kind = "pair"
  /\ entry.num.ty \in {"int", "float"}
  /\ NonNegative(entry.num)

IsLevel(n) == IsInteger(n) /\ ~n.neg /\ n.f = 0 /\ n.w >= 1 /\ n.w <= 5

PairsIn(table) == \A i \in 1..Len(table) : IsNamedAmount(table[i])

LevelsIn(table) == \A i \in 1..Len(table) : IsLevel(table[i].num)

C8_AllTablesHoldPairs ==
  /\ \A name \in DOMAIN CurrentTables(tableWrites) : PairsIn(CurrentTables(tableWrites)[name])
  /\ LevelsIn(CurrentTables(tableWrites).strictness)

(***************************************************************************)
(* C8, amended.  In the six tables named *_FALLBACK every value is a pair  *)
(* (name, number) with a non-negative number, which in the gun-control     *)
(* strictness table is an integer from 1 to 5; in _COUNTRY_REGIONS every   *)
(* value is a region label, a string and no pair.                          *)
(***************************************************************************)
C8_FallbackTablesHoldPairs ==
  /\ \A name \in DOMAIN CurrentTables(tableWrites) \ {"regions"} :
       PairsIn(CurrentTables(tableWrites)[name])
  /\ LevelsIn(CurrentTables(tableWrites).strictness)
  /\ \A i \in 1..Len(CurrentTables(tableWrites).regions) :
       CurrentTables(tableWrites).regions[i].kind = "str"

\* the strictness table was read, and both ends of its scale are in it
C8_Witness ==
  /\ After("get_gun_control_strictness")
  /\ \E i \in 1..FrameLen(result) : result.rows[i].gun_control_strictness = Int0(1)
  /\ \E i \in 1..FrameLen(result) : result.rows[i].gun_control_strictness = Int0(5)

(***************************************************************************)
(* C9.  As claimed: extract_outputs called twice on the same unchanged     *)
(* notebook, one with Plotly outputs included, returns byte-identical HTML *)
(* fragments.                                                              *)
(***************************************************************************)
\* extract_outputs has returned for a notebook it had returned for before
ExtractedAgain ==
  /\ After("extract_outputs")
  /\ raised = "none"
  /\ earlier # <<>>
  /\ earlier[1].name = call.args[1]

C9_ExtractionIsIdempotent == ExtractedAgain => result = earlier[1].html

(***************************************************************************)
(* C9, amended.  extract_outputs called twice on the same unchanged        *)
(* notebook returns byte-identical HTML fragments when the notebook has no *)
(* Plotly output; with Plotly outputs the two fragments are identical      *)
(* apart from the 12 hex digits that end each chart's element id, which    *)
(* are drawn afresh on every call.                                         *)
(***************************************************************************)
\* the text of the notebook file names no Plotly output
NoPlotlyIn(file) == ~Contains(Dumps(file.value), PlotlyMime)

\* html with the element ids made of the given uuids blotted out
RECURSIVE Blotted(_, _)
Blotted(html, uuids) ==
  IF uuids = {} THEN html
  ELSE LET u == CHOOSE x \in uuids : TRUE
       IN  Blotted(Replace(html, "plotly-" \o SubSeq(u, 1, 12), "plotly-############"),
                   uuids \ {u})

C9_IdempotentApartFromChartIds ==
  ExtractedAgain =>
    /\ Blotted(result, Uuids) = Blotted(earlier[1].html, Uuids)
    /\ NoPlotlyIn(fs[call.args[1]]) => result = earlier[1].html

\* a notebook with a chart was extracted twice, and the fragments differ
C9_Witness ==
  /\ ExtractedAgain
  /\ ~NoPlotlyIn(fs[call.args[1]])
  /\ result # earlier[1].html

(***************************************************************************)
(* C10.  When none of the listed notebook files exists, main completes     *)
(* normally and writes an HTML document whose navigation block holds no    *)
(* anchor and whose body holds no section element.                         *)
(***************************************************************************)
NoneExists == \A i \in 1..Len(NOTEBOOKS) : ~fs[NOTEBOOKS[i]].exists

\* the text between <nav> and </nav>
NavBlock(html) ==
  SubSeq(html, SetMin(Occurrences(html, "<nav>")) + 5, SetMin(Occurrences(html, "</nav>")) - 1)

IsEmptyShell(html) ==
  /\ StartsWith(html, "<!DOCTYPE html>")
  /\ EndsWith(html, "</html>")
  /\ Cardinality(Occurrences(html, "<nav>")) = 1
  /\ Cardinality(Occurrences(html, "</nav>")) = 1
  /\ ~Contains(NavBlock(html), "<a")
  /\ IsBlank(NavBlock(html))
  /\ ~Contains(html, "<section")

C10_NoNotebooksEmptyShell ==
  After("main") /\ NoneExists =>
    /\ raised = "none"
    /\ reportWrites = 1
    /\ Len(report) = 1
    /\ IsEmptyShell(report[1])

\* main has run over an empty notebooks directory and the report is there
C10_Witness ==
  /\ After("main")
  /\ NoneExists
  /\ report # <<>>
  /\ Len(printed) = Len(NOTEBOOKS) + 2

(***************************************************************************)
(* C11.  Whatever listed notebook files are missing, main prints a skip    *)
(* message for each missing file and does not read it, extracts every      *)
(* notebook that exists, and writes the report.  The notebooks that exist  *)
(* are taken to be ones extract_outputs returns for.                       *)
(***************************************************************************)
Listed == 1..Len(NOTEBOOKS)

IsPresent(nb_name) == fs[nb_name].exists

\* the names of the files that exist, in list order
PresentNames == SelectSeq(NOTEBOOKS, IsPresent)

\* uuids to extract a file with, the same for every chart
SameUuid(file, uuid) == [i \in 1..Charts(file) |-> uuid]

Extractable(file) ==
  extract_outputs(file, SameUuid(file, CHOOSE u \in Uuids : TRUE)).raised = "none"

AllExtractable == \A i \in Listed : IsPresent(NOTEBOOKS[i]) => Extractable(fs[NOTEBOOKS[i]])

WasPrinted(text) == \E k \in 1..Len(printed) : printed[k] = Message(text)

SkipLine(nb_name) == "Skipping " \o nb_name \o " (not found)"

ExtractLine(nb_name) == "Extracting outputs from " \o nb_name \o " ..."

\* the fragments extract_outputs may return for the file, one per uuid
FragmentsOf(file) == {extract_outputs(file, SameUuid(file, u)).html : u \in Uuids}

\* a section of the report holds a fragment of the file
HasSectionOf(file) ==
  \E k \in 1..Len(locals.content_sections) :
    \E fragment \in FragmentsOf(file) :
      Contains(locals.content_sections[k],
               "<div class=\"notebook-content\">" \o fragment \o "</div>\n</section>")

C11_MissingNotebooksAreSkipped ==
  After("main") /\ AllExtractable =>
    /\ raised = "none"
    /\ \A i \in Listed :
         IF IsPresent(NOTEBOOKS[i])
         THEN /\ WasPrinted(ExtractLine(NOTEBOOKS[i]))
              /\ ~WasPrinted(SkipLine(NOTEBOOKS[i]))
              /\ "" \notin FragmentsOf(fs[NOTEBOOKS[i]]) => HasSectionOf(fs[NOTEBOOKS[i]])
         ELSE /\ WasPrinted(SkipLine(NOTEBOOKS[i]))
              /\ ~WasPrinted(ExtractLine(NOTEBOOKS[i]))
    /\ locals.reads = PresentNames
    /\ reportWrites = 1
    /\ Len(report) = 1
    /\ report[1] = DocumentHead \o Join("", locals.nav_items) \o DocumentMiddle
                   \o Join("", locals.content_sections) \o DocumentFoot

\* the first notebook is missing, the second is there and has its section
C11_Witness ==
  /\ After("main")
  /\ AllExtractable
  /\ ~IsPresent(NOTEBOOKS[1])
  /\ IsPresent(NOTEBOOKS[2])
  /\ locals.reads = <<NOTEBOOKS[2]>>
  /\ Len(locals.content_sections) = 1
  /\ HasSectionOf(fs[NOTEBOOKS[2]])
  /\ report # <<>>

(***************************************************************************)
(* C12.  No retries: a call of fetch_world_bank_indicator issues at most   *)
(* one HTTP request, whether it succeeds or fails, and a call of           *)
(* fetch_population issues exactly one, for SP.POP.TOTL and its year,      *)
(* and does not fetch again when it falls back to the embedded table.      *)
(***************************************************************************)
FellBack(text) == \E k \in 1..Len(printed) : printed[k] = Message(text)

C12_NoRetries ==
  /\ After("fetch_world_bank_indicator") =>
       /\ Len(requests) <= 1
       /\ \A k \in 1..Len(requests) : requests[k] = HttpGet(call.args[1], call.args[2])
  /\ After("fetch_population") =>
       /\ Len(requests) = 1
       /\ requests[1] = HttpGet("SP.POP.TOTL", call.args[1])

\* the one request of fetch_population failed and the table was used
C12_Witness ==
  /\ After("fetch_population")
  /\ served[1] = NetFailure("Timeout")
  /\ FellBack("Using embedded population fallback data")
  /\ SameRows(result.rows, _POPULATION_FALLBACK, "population")
  /\ Len(requests) = 1

(***************************************************************************)
(* C13.  fetch_gini with the range "start:end" makes exactly one fetch per *)
(* year from end down to start, both included and in strictly descending   *)
(* order, whatever the earlier years returned; when start is greater than  *)
(* end it makes no fetch and returns the fallback table.                   *)
(***************************************************************************)
\* the years "start:end" names, read off the argument's characters
StartOf(year_range) == DecimalValue(SplitColon(year_range, <<>>, <<>>)[1])

EndOf(year_range) == DecimalValue(SplitColon(year_range, <<>>, <<>>)[2])

\* the year the k-th fetch of the range is owed to
OwedYear(year_range, k) == EndOf(year_range) + 1 - k

C13_OneFetchPerYearDescending ==
  After("fetch_gini") =>
    /\ raised = "none"
    /\ IF StartOf(call.args[1]) > EndOf(call.args[1])
       THEN /\ requests = <<>>
            /\ SameRows(result.rows, _GINI_FALLBACK, "gini")
       ELSE /\ Len(requests) = EndOf(call.args[1]) - StartOf(call.args[1]) + 1
            /\ \A k \in 1..Len(requests) :
                 requests[k] = HttpGet("SI.POV.GINI", StrOfNat(OwedYear(call.args[1], k)))
            /\ \A k \in 2..Len(requests) :
                 DecimalValue(requests[k].date) < DecimalValue(requests[k - 1].date)

\* a range of three years whose latest year already had data for enough
\* countries: the two earlier years were fetched all the same
C13_Witness ==
  /\ After("fetch_gini")
  /\ call.args[1] = YearRange(LastYear - 2, LastYear)
  /\ Len(OwedRows(served[1])) >= GiniThreshold
  /\ Len(requests) = 3
  /\ requests[1].date = StrOfNat(LastYear)
  /\ requests[3].date = StrOfNat(LastYear - 2)

\* a range whose start is after its end
C13_EmptyRangeWitness ==
  /\ After("fetch_gini")
  /\ StartOf(call.args[1]) > EndOf(call.args[1])
  /\ requests = <<>>
  /\ FrameLen(result) = Len(_GINI_FALLBACK)

(***************************************************************************)
(* C14.  fetch_world_bank_indicator always returns a table with the        *)
(* columns country_code, country_name, value, also when the request        *)
(* succeeds and no record passes the filter.  The code does not do this:   *)
(* line 38 builds the frame from the list of rows, and from an empty list  *)
(* pandas builds a frame with no columns at all.                           *)
(***************************************************************************)
C14_AlwaysTheThreeColumns ==
  After("fetch_world_bank_indicator") =>
    result.columns = <<"country_code", "country_name", "value">>

\* the request succeeded with a well-formed envelope, no record was kept,
\* and the frame that came back has no columns
C14_ColumnsMissing ==
  /\ After("fetch_world_bank_indicator")
  /\ raised = "none"
  /\ WellFormed(served[1])
  /\ OwedRows(served[1]) = <<>>
  /\ result.columns = <<>>

(***************************************************************************)
(* C15.  The wrappers return the same columns on the live path and on the  *)
(* fallback path: fetch_population always country_code, country_name,      *)
(* population, and fetch_gini always exactly country_code, country_name,   *)
(* gini; the year column fetch_gini works with is never in its result.     *)
(***************************************************************************)
\* the frame has exactly these columns, and every row a cell for each
HasColumns(df, cols) ==
  /\ df.columns = cols
  /\ \A i \in 1..Len(df.rows) : DOMAIN df.rows[i] = {cols[k] : k \in 1..Len(cols)}

C15_SameColumnsLiveAndFallback ==
  /\ After("fetch_population") =>
       /\ raised = "none"
       /\ HasColumns(result, <<"country_code", "country_name", "population">>)
  /\ After("fetch_gini") =>
       /\ raised = "none"
       /\ HasColumns(result, <<"country_code", "country_name", "gini">>)

\* fetch_gini returned live rows it had collected over two years
C15_Witness ==
  /\ After("fetch_gini")
  /\ Len(requests) = 2
  /\ ~FellBack("Using embedded Gini fallback data")
  /\ FrameLen(result) >= GiniThreshold
  /\ HasColumns(result, <<"country_code", "country_name", "gini">>)

\* fetch_population returned the table's rows
C15_FallbackWitness ==
  /\ After("fetch_population")
  /\ FellBack("Using embedded population fallback data")
  /\ HasColumns(result, <<"country_code", "country_name", "population">>)

(***************************************************************************)
(* C16.  The result of fetch_world_bank_indicator depends only on the      *)
(* second element of the response envelope: two successful responses that  *)
(* differ only in their first element, the metadata, give the same frame,  *)
(* the same output and the same outcome.                                   *)
(***************************************************************************)
\* a 2xx answer whose body is a JSON list of at least two elements
IsEnvelope(resp) ==
  /\ resp.net = "ok"
  /\ resp.code >= 200 /\ resp.code < 300
  /\ resp.body.json
  /\ resp.body.data.k = "list"
  /\ resp.body.data.n >= 2

\* the same response with another first element
WithMeta(resp, meta) == [resp EXCEPT !.body.data.items[1] = meta]

\* first elements of every kind, a list of good records among them
OtherMetas ==
  { DictElement(4), DictElement(0), NullElement, NumElement, StrElement(3),
    ListElement(<<>>), ListElement(<<GoodRecord("DEU", "Germany", Int0(9))>>) }

SameOutcome(o) == o.df = result /\ o.raised = raised /\ o.printed = printed

C16_OnlySecondElementMatters ==
  After("fetch_world_bank_indicator") /\ IsEnvelope(served[1]) =>
    \A meta \in OtherMetas :
      SameOutcome(fetch_world_bank_indicator(call.args[1], call.args[2],
                                             WithMeta(served[1], meta)))

\* rows came back from an envelope without metadata; with metadata, or with
\* records in their place, the call gives the same
C16_Witness ==
  /\ After("fetch_world_bank_indicator")
  /\ IsEnvelope(served[1])
  /\ served[1].body.data.items[1] = NullElement
  /\ FrameLen(result) = 2
  /\ WithMeta(served[1], DictElement(4)) \in IndicatorResponses
  /\ SameOutcome(fetch_world_bank_indicator(call.args[1], call.args[2],
                   WithMeta(served[1], ListElement(<<GoodRecord("DEU", "Germany", Int0(9))>>))))

(***************************************************************************)
(* C17.  In the assembled report the navigation anchors and the sections   *)
(* correspond one to one and in the same order: there are as many anchors  *)
(* as sections, and, counting from 0, the i-th anchor links to #section-i, *)
(* the i-th section has the id section-i, and both carry the same title.   *)
(***************************************************************************)
AnchorOpening(i) == "<a href=\"#section-" \o Decimal(i) \o "\">"

\* what the anchor shows: the text between its opening tag and </a>
AnchorTitle(anchor, i) == SubSeq(anchor, Len(AnchorOpening(i)) + 1, Len(anchor) - Len("</a>"))

IsAnchorTo(anchor, i) == StartsWith(anchor, AnchorOpening(i)) /\ EndsWith(anchor, "</a>")

\* the section has the id section-i and the title as its heading
IsSectionOf(section, i, title) ==
  StartsWith(section, "<section id=\"section-" \o Decimal(i) \o "\">\n"
                      \o "<h2 class=\"section-title\">" \o title \o "</h2>\n")

\* the report is the template around the anchors and the sections, in order
AssembledFrom(nav_items, content_sections) ==
  report = <<DocumentHead \o Join("", nav_items) \o DocumentMiddle
             \o Join("", content_sections) \o DocumentFoot>>

C17_AnchorsMatchSections ==
  After("main") /\ raised = "none" =>
    /\ AssembledFrom(locals.nav_items, locals.content_sections)
    /\ Len(locals.nav_items) = Len(locals.content_sections)
    /\ \A k \in 1..Len(locals.nav_items) :
         /\ IsAnchorTo(locals.nav_items[k], k - 1)
         /\ AnchorTitle(locals.nav_items[k], k - 1) # ""
         /\ IsSectionOf(locals.content_sections[k], k - 1,
                        AnchorTitle(locals.nav_items[k], k - 1))

\* a report of two sections with different titles
C17_Witness ==
  /\ After("main")
  /\ raised = "none"
  /\ Len(locals.nav_items) = 2
  /\ Len(locals.content_sections) = 2
  /\ AnchorTitle(locals.nav_items[1], 0) # AnchorTitle(locals.nav_items[2], 1)
  /\ IsSectionOf(locals.content_sections[2], 1, AnchorTitle(locals.nav_items[2], 1))
  /\ Contains(report[1], locals.nav_items[2])

(***************************************************************************)
(* C18.  For a markdown cell extract_outputs emits exactly one HTML        *)
(* element per non-blank source line and none for a blank line, chosen by  *)
(* the first matching rule in the order "### " -> h4, "## " -> h3,         *)
(* "# " -> h3, starting and ending with "**" -> bold paragraph,            *)
(* "- " -> list item, otherwise paragraph; the elements keep the order of  *)
(* the source lines.                                                       *)
(***************************************************************************)
\* the rules in their order: what the line starts and ends with, and the
\* tags put around what is between
RuleStart == <<"### ", "## ", "# ", "**", "- ", "">>

RuleEnd == <<"", "", "", "**", "", "">>

RuleOpen == <<"<h4>", "<h3>", "<h3>", "<p><strong>", "<li>", "<p>">>

RuleClose == <<"</h4>", "</h3>", "</h3>", "</strong></p>", "</li>", "</p>">>

RuleMatches(line, r) == StartsWith(line, RuleStart[r]) /\ EndsWith(line, RuleEnd[r])

FirstRule(line) == SetMin({r \in 1..Len(RuleStart) : RuleMatches(line, r)})

Wrapped(line, r) ==
  RuleOpen[r] \o SubSeq(line, Len(RuleStart[r]) + 1, Len(line) - Len(RuleEnd[r]))
  \o RuleClose[r]

ElementFor(line) == Wrapped(line, FirstRule(line))

NotBlank(line) == \E i \in 1..Len(line) : CharAt(line, i) \notin {" ", "\t", "\n", "\r", "\f"}

\* the elements owed to a markdown cell: one per non-blank line, in order
ElementsOwed(lines) == [k \in 1..Len(lines) |-> ElementFor(lines[k])]

SourceLines(cell) == Split(JoinText(GetOr(cell, "source", JList(<<>>))), "\n")

CellHtmlOwed(cell) == Join("\n", ElementsOwed(SelectSeq(SourceLines(cell), NotBlank)))

IsMarkdownCell(cell) == Has(cell, "cell_type") /\ Get(cell, "cell_type") = JStr("markdown")

IsProseCell(cell) == Has(cell, "cell_type") /\ Get(cell, "cell_type") # JStr("code")

\* the cells of a notebook file
CellsOf(file) == GetOr(file.value, "cells", JList(<<>>)).items

\* a notebook with no code cell
IsProse(file) ==
  /\ file.exists /\ file.json /\ file.value.k = "dict"
  /\ \A i \in 1..Len(CellsOf(file)) : IsProseCell(CellsOf(file)[i])

MarkdownOwed(cells) == [k \in 1..Len(cells) |-> CellHtmlOwed(cells[k])]

C18_OneElementPerNonBlankLine ==
  After("extract_outputs") /\ IsProse(fs[call.args[1]]) =>
    /\ raised = "none"
    /\ result = Join("\n", MarkdownOwed(SelectSeq(CellsOf(fs[call.args[1]]), IsMarkdownCell)))

\* a cell with a line for every rule, blank lines and lines that only look
\* like a rule's
C18_Witness ==
  /\ After("extract_outputs")
  /\ fs[call.args[1]] = Prose
  /\ Len(SourceLines(CellsOf(Prose)[1])) = 14
  /\ Len(SelectSeq(SourceLines(CellsOf(Prose)[1]), NotBlank)) = 12
  /\ {FirstRule(SourceLines(CellsOf(Prose)[1])[k]) : k \in {1, 2, 3, 4, 5, 6}} = 1..6
  /\ result = "<h3>Title</h3>\n<h3>Sub</h3>\n<h4>Subsub</h4>\n<p><strong>Bold</strong></p>\n"
              \o "<li>item</li>\n<p>plain</p>\n<p>#nospace</p>\n<p>**open</p>\n<li></li>\n"
              \o "<p> # indented</p>\n<p><strong></strong></p>\n<p><strong></strong></p>"

(***************************************************************************)
(* C19.  For each display_data or execute_result output of a code cell     *)
(* extract_outputs emits at most one fragment, chosen by a fixed           *)
(* precedence: the Plotly chart if its JSON is present, else text/html     *)
(* (wrapped as table-wrapper when it contains "<table", otherwise as       *)
(* output-html), else image/png.  An output with none of these MIME types, *)
(* an output of any other type and a stream output whose text is only      *)
(* whitespace emit nothing.                                                *)
(***************************************************************************)
TypeOf(output) == GetOr(output, "output_type", JStr("")).s

DataOf(output) == GetOr(output, "data", JDict(<<>>))

StreamText(output) == JoinText(GetOr(output, "text", JList(<<>>)))

\* the fragment the claim owes to a rich output, by precedence
RichKind(data) ==
  IF Has(data, PlotlyMime) THEN "chart"
  ELSE IF Has(data, "text/html")
    THEN IF Contains(JoinText(Get(data, "text/html")), "<table") THEN "table" ELSE "html"
  ELSE IF Has(data, "image/png") THEN "image"
  ELSE "none"

KindOwed(output) ==
  IF TypeOf(output) \in {"display_data", "execute_result"} THEN RichKind(DataOf(output))
  ELSE IF TypeOf(output) = "stream" /\ NotBlank(StreamText(output)) THEN "text"
  ELSE "none"

Emitting(output) == KindOwed(output) # "none"

\* the part is the fragment of that kind for the output
IsFragmentOf(part, output) ==
  CASE KindOwed(output) = "chart" ->
         /\ StartsWith(part, "<div id=\"plotly-")
         /\ Contains(part, "class=\"plotly-graph-div\"")
         /\ Contains(part, "Plotly.newPlot(\"plotly-")
         /\ EndsWith(part, "</script>")
    [] KindOwed(output) = "table" ->
         part = "<div class=\"table-wrapper\">"
                \o JoinText(Get(DataOf(output), "text/html")) \o "</div>"
    [] KindOwed(output) = "html" ->
         part = "<div class=\"output-html\">"
                \o JoinText(Get(DataOf(output), "text/html")) \o "</div>"
    [] KindOwed(output) = "image" ->
         /\ StartsWith(part, "<div class=\"output-image\"><img src=\"data:image/png;base64,")
         /\ EndsWith(part, "\"></div>")
    [] KindOwed(output) = "text" ->
         part = "<pre class=\"output-text\">" \o StreamText(output) \o "</pre>"
    [] OTHER -> FALSE

\* what a cell owes to parts: a markdown cell its html, a code cell its
\* emitting outputs in order, any other cell nothing
OutputsOf(cell) == GetOr(cell, "outputs", JList(<<>>)).items

OwedBy(cell) ==
  IF IsMarkdownCell(cell) THEN <<cell>>
  ELSE IF IsProseCell(cell) THEN <<>>
  ELSE SelectSeq(OutputsOf(cell), Emitting)

RECURSIVE OwedByAll(_)
OwedByAll(cells) ==
  IF cells = <<>> THEN <<>> ELSE OwedBy(Head(cells)) \o OwedByAll(Tail(cells))

C19_OneFragmentByPrecedence ==
  After("extract_outputs") /\ raised = "none" =>
    LET owed == OwedByAll(CellsOf(fs[call.args[1]]))
    IN  /\ Len(locals.parts) = Len(owed)
        /\ \A k \in 1..Len(owed) :
             IF IsMarkdownCell(owed[k]) THEN locals.parts[k] = CellHtmlOwed(owed[k])
             ELSE IsFragmentOf(locals.parts[k], owed[k])
        /\ result = Join("\n", locals.parts)

\* an output with both text/html and the chart's JSON gave the chart alone
C19_Witness ==
  /\ After("extract_outputs")
  /\ fs[call.args[1]] = Chart
  /\ Has(DataOf(OutputsOf(CellsOf(Chart)[1])[1]), "text/html")
  /\ Len(locals.parts) = 1
  /\ StartsWith(locals.parts[1], "<div id=\"plotly-")
  /\ ~Contains(result, "<div>chart</div>")

\* of four outputs, the error gave nothing, the table won over the image
C19_TablesWitness ==
  /\ After("extract_outputs")
  /\ fs[call.args[1]] = Tables
  /\ Len(OutputsOf(CellsOf(Tables)[1])) = 4
  /\ Len(locals.parts) = 3
  /\ StartsWith(locals.parts[1], "<div class=\"table-wrapper\"><table")
  /\ StartsWith(locals.parts[2], "<div class=\"output-html\">")
  /\ StartsWith(locals.parts[3], "<pre class=\"output-text\">")
  /\ ~Contains(result, "AAAA")

\* images given as a string and as a list; plain text alone and an output
\* without a type gave nothing
C19_ImagesWitness ==
  /\ After("extract_outputs")
  /\ fs[call.args[1]] = Images
  /\ Len(OutputsOf(CellsOf(Images)[1])) = 4
  /\ Len(locals.parts) = 2
  /\ locals.parts[1] = locals.parts[2]

(***************************************************************************)
(* C20.  The functions share no mutable state: after any sequence of calls *)
(* of the fetch_* and get_* functions the embedded tables are as the       *)
(* module defines them, so a get_* call, or a fetch_* call given the same  *)
(* API responses, returns the same whatever calls went before it.          *)
(***************************************************************************)
\* the call's outcome is that of o
IsOutcome(o) == result = o.df /\ raised = o.raised /\ printed = o.printed

\* the answer fetch_gini was served for each year of its range
ServedFor(year_range) ==
  [y \in StartOf(year_range)..EndOf(year_range) |-> served[EndOf(year_range) + 1 - y]]

\* what the function of the last call gives on the same arguments and the
\* same answers with the tables as the module defines them
Afresh ==
  CASE call.fn = "fetch_world_bank_indicator" ->
         fetch_world_bank_indicator(call.args[1], call.args[2], served[1])
    [] call.fn = "fetch_population" ->
         fetch_population(call.args[1], served[1], EmbeddedTables)
    [] call.fn = "fetch_gini" ->
         fetch_gini(call.args[1], ServedFor(call.args[1]), call.args[2], EmbeddedTables)
    [] call.fn = "get_gun_homicide_rates" -> get_gun_homicide_rates(EmbeddedTables)
    [] call.fn = "get_drug_offense_rates" -> get_drug_offense_rates(EmbeddedTables)
    [] call.fn = "get_gun_ownership_rates" -> get_gun_ownership_rates(EmbeddedTables)
    [] call.fn = "get_gun_control_strictness" -> get_gun_control_strictness(EmbeddedTables)
    [] call.fn = "get_country_regions" -> get_country_regions(EmbeddedTables)

C20_NoSharedMutableState ==
  /\ CurrentTables(tableWrites) = EmbeddedTables
  /\ pc = "returned" /\ preceded => IsOutcome(Afresh)

\* fetch_population, called after other calls, fell back to its table, and
\* the table gave what the module defines
C20_Witness ==
  /\ After("fetch_population")
  /\ preceded
  /\ FellBack("Using embedded population fallback data")
  /\ SameRows(result.rows, _POPULATION_FALLBACK, "population")
  /\ CurrentTables(tableWrites) = EmbeddedTables

(***************************************************************************)
(* C21.  fetch_gini applies its threshold of 50 to the number of distinct  *)
(* country codes left after the latest-year deduplication over all fetched *)
(* years, not to the row count of a single response and not to the count   *)
(* of the concatenated rows: with 50 or more distinct countries the result *)
(* is the live data, with fewer it is the fallback table.                  *)
(***************************************************************************)
\* the rows the API gave in all the years fetched, duplicates counted
RawCount(owed) == SumOver([i \in 1..Len(owed) |-> Len(owed[i].rows)])

ResultCodes == {result.rows[i].country_code : i \in 1..Len(result.rows)}

\* the result is made of the API's rows, one per country it reported
IsLive ==
  /\ ~FellBack("Using embedded Gini fallback data")
  /\ ResultCodes = GiniCodes
  /\ FrameLen(result) = Cardinality(GiniCodes)

IsGiniFallback ==
  /\ FellBack("Using embedded Gini fallback data")
  /\ SameRows(result.rows, _GINI_FALLBACK, "gini")

C21_ThresholdOnDistinctCountries ==
  After("fetch_gini") =>
    IF Cardinality(GiniCodes) >= GiniThreshold THEN IsLive ELSE IsGiniFallback

\* no single year reported 50 countries, the years together did
C21_Witness ==
  /\ After("fetch_gini")
  /\ \A i \in 1..Len(served) : Len(OwedRows(served[i])) < GiniThreshold
  /\ Cardinality(GiniCodes) = GiniThreshold
  /\ IsLive

\* 50 rows or more came back, of fewer than 50 countries
C21_RawCountWitness ==
  /\ After("fetch_gini")
  /\ RawCount(GiniOwed) >= GiniThreshold
  /\ Cardinality(GiniCodes) < GiniThreshold
  /\ IsGiniFallback

(***************************************************************************)
(* C22.  In fetch_gini a failed or empty fetch for one year does not       *)
(* discard the data of the other years: the years whose fetch fails or     *)
(* gives no rows are skipped, every year of the range is still fetched,    *)
(* and the rows of the remaining years are combined and used when they     *)
(* reach the threshold.                                                    *)
(***************************************************************************)
\* the fetches of the call that failed or gave no rows
Fruitless == {i \in 1..Len(served) : OwedRows(served[i]) = <<>>}

\* the rows of the years that gave some
Fruitful == SelectSeq(GiniOwed, LAMBDA o : o.rows # <<>>)

C22_FruitlessYearsAreSkipped ==
  After("fetch_gini") /\ Fruitless # {} =>
    /\ raised = "none"
    /\ Len(requests) = EndOf(call.args[1]) - StartOf(call.args[1]) + 1
    /\ IF Cardinality(CodesIn(Fruitful)) >= GiniThreshold
       THEN /\ ~FellBack("Using embedded Gini fallback data")
            /\ ResultCodes = CodesIn(Fruitful)
            /\ LatestWins(Fruitful)
       ELSE IsGiniFallback

\* the latest year timed out and the earliest gave nothing; the year between
\* them reported 50 countries, and they are the result
C22_Witness ==
  /\ After("fetch_gini")
  /\ Len(served) = 3
  /\ served[1] = NetFailure("Timeout")
  /\ Len(OwedRows(served[2])) = GiniThreshold
  /\ OwedRows(served[3]) = <<>>
  /\ ~FellBack("Using embedded Gini fallback data")
  /\ FrameLen(result) = GiniThreshold
  /\ result.rows[1].gini = Reported(LastYear - 1, 0)

(***************************************************************************)
(* C23.  The result of fetch_gini holds at most one row per country code,  *)
(* on the live path, whatever the API answered (a country given twice      *)
(* within one year included), and on the fallback path.                    *)
(***************************************************************************)
\* as many country codes as rows
OneRowPerCountry(rows) ==
  Cardinality({rows[i].country_code : i \in 1..Len(rows)}) = Len(rows)

\* the answer names a country in two of its records
HasRepeatedCountry(resp) == ~OneRowPerCountry(OwedRows(resp))

C23_OneRowPerCountry ==
  After("fetch_gini") => OneRowPerCountry(result.rows)

\* live data from an answer that gave a country twice for the same year
C23_Witness ==
  /\ After("fetch_gini")
  /\ \E i \in 1..Len(served) : HasRepeatedCountry(served[i])
  /\ IsLive
  /\ OneRowPerCountry(result.rows)
  /\ FrameLen(result) >= GiniThreshold

\* the fallback path
C23_FallbackWitness ==
  /\ After("fetch_gini")
  /\ IsGiniFallback
  /\ OneRowPerCountry(result.rows)
  /\ \E i \in 1..Len(served) : HasRepeatedCountry(served[i])

(***************************************************************************)
(* C24.  Sections appear in the report in the order of the NOTEBOOKS list; *)
(* a notebook that exists but yields an empty fragment gets neither a      *)
(* section nor a navigation anchor; and the section ids are section-0,     *)
(* section-1, ... without gaps over the sections emitted, skipped and      *)
(* empty notebooks taking no number.                                       *)
(***************************************************************************)
\* the notebook is there and its fragment is not empty
Emitted(nb_name) == IsPresent(nb_name) /\ "" \notin FragmentsOf(fs[nb_name])

\* the notebook is there and its fragment is empty
IsEmptyNotebook(nb_name) == IsPresent(nb_name) /\ FragmentsOf(fs[nb_name]) = {""}

\* the notebooks owed a section, in list order
EmittedNames == SelectSeq(NOTEBOOKS, Emitted)

\* the section holds a fragment of the notebook
HoldsFragmentOf(section, nb_name) ==
  \E fragment \in FragmentsOf(fs[nb_name]) :
    EndsWith(section, "<div class=\"notebook-content\">" \o fragment
                      \o "</div>\n</section>\n<hr>\n")

\* the sections and the anchors are those of the given notebooks, in order
SectionsAreOf(names) ==
  /\ Len(locals.content_sections) = Len(names)
  /\ Len(locals.nav_items) = Len(names)
  /\ \A k \in 1..Len(names) :
       /\ IsSectionOf(locals.content_sections[k], k - 1, SectionTitle(names[k]))
       /\ HoldsFragmentOf(locals.content_sections[k], names[k])
       /\ locals.nav_items[k] = AnchorOpening(k - 1) \o SectionTitle(names[k]) \o "</a>"

C24_SectionsInListOrderWithoutGaps ==
  After("main") /\ raised = "none" =>
    /\ SectionsAreOf(EmittedNames)
    /\ AssembledFrom(locals.nav_items, locals.content_sections)

\* the first notebook is there and yields nothing, the second has the only
\* section, numbered 0
C24_Witness ==
  /\ After("main")
  /\ raised = "none"
  /\ IsEmptyNotebook(NOTEBOOKS[1])
  /\ Emitted(NOTEBOOKS[2])
  /\ Len(locals.content_sections) = 1
  /\ IsSectionOf(locals.content_sections[1], 0, SectionTitle(NOTEBOOKS[2]))
  /\ ~Contains(report[1], SectionTitle(NOTEBOOKS[1]))
  /\ ~Contains(report[1], "section-1")

\* two sections, in the order of the list
C24_TwoSectionsWitness ==
  /\ After("main")
  /\ raised = "none"
  /\ EmittedNames = <<NOTEBOOKS[1], NOTEBOOKS[2]>>
  /\ IsSectionOf(locals.content_sections[1], 0, SectionTitle(NOTEBOOKS[1]))
  /\ IsSectionOf(locals.content_sections[2], 1, SectionTitle(NOTEBOOKS[2]))

(***************************************************************************)
(* C25.  When a Plotly output is rendered, values the notebook's layout    *)
(* already has are never overwritten: autosize is set to true and the      *)
(* margins l, r, t, b to 10, 10, 40, 10 only for the keys the layout does  *)
(* not have, and every key it has keeps its value in the layout of the     *)
(* emitted chart.                                                          *)
(***************************************************************************)
\* of the given items, those whose key the dict does not have
AbsentFrom(d, defaults) == SelectSeq(defaults, LAMBDA it : ~Has(d, it.key))

MarginOwed(margin) ==
  JDict(margin.items
        \o AbsentFrom(margin, <<Item("l", JInt(10)), Item("r", JInt(10)),
                                Item("t", JInt(40)), Item("b", JInt(10))>>))

\* the layout's own items as they are, its margin completed, then the keys
\* it lacked
LayoutOwed(layout) ==
  JDict([i \in 1..Len(layout.items) |->
           IF layout.items[i].key = "margin"
           THEN Item("margin", MarginOwed(layout.items[i].val))
           ELSE layout.items[i]]
        \o AbsentFrom(layout, <<Item("autosize", JBool(TRUE)),
                                Item("margin", MarginOwed(JDict(<<>>)))>>))

FigureOf(output) == Get(DataOf(output), PlotlyMime)

\* the call of Plotly.newPlot owed to a chart output, from the data on
NewPlotOwed(output) ==
  "\", " \o Dumps(GetOr(FigureOf(output), "data", JList(<<>>)))
  \o ", " \o Dumps(LayoutOwed(GetOr(FigureOf(output), "layout", JDict(<<>>))))
  \o ", {\"responsive\": true, \"displayModeBar\": false});\n</script>"

IsChart(owed) == ~IsMarkdownCell(owed) /\ KindOwed(owed) = "chart"

C25_LayoutValuesAreKept ==
  After("extract_outputs") /\ raised = "none" =>
    LET owed == OwedByAll(CellsOf(fs[call.args[1]]))
    IN  /\ Len(locals.parts) = Len(owed)
        /\ \A k \in 1..Len(owed) :
             IsChart(owed[k]) => EndsWith(locals.parts[k], NewPlotOwed(owed[k]))

\* a layout with a title, autosize false and a top margin of 80 keeps the
\* three and gets the other margins
C25_Witness ==
  /\ After("extract_outputs")
  /\ fs[call.args[1]] = StyledChart
  /\ Len(locals.parts) = 2
  /\ EndsWith(locals.parts[2],
              ", [], {\"title\": \"Map\", \"autosize\": false, "
              \o "\"margin\": {\"t\": 80, \"l\": 10, \"r\": 10, \"b\": 10}}, "
              \o "{\"responsive\": true, \"displayModeBar\": false});\n</script>")

\* a chart without a layout gets all the defaults
C25_DefaultsWitness ==
  /\ After("extract_outputs")
  /\ fs[call.args[1]] = Chart
  /\ Contains(locals.parts[1],
              ", {\"autosize\": true, \"margin\": {\"l\": 10, \"r\": 10, \"t\": 40, \"b\": 10}}, ")

(***************************************************************************)
(* C26.  fetch_world_bank_indicator is all-or-nothing per response: when   *)
(* the processing of any one record raises (its country is null, its       *)
(* country id is null, its value cannot be converted to a number), the     *)
(* rows accepted from the records before it are discarded and the result   *)
(* is empty; a partial table is never returned.                            *)
(***************************************************************************)
\* a record of the answer cannot be processed
HasUnprocessable(resp) ==
  \E i \in 1..Len(RecordsOf(resp)) : Unprocessable(RecordsOf(resp)[i])

\* a record that would be kept stands before one that cannot be processed
AcceptedBeforeFailure(resp) ==
  \E i \in 1..Len(RecordsOf(resp)) :
    /\ Unprocessable(RecordsOf(resp)[i])
    /\ \E j \in 1..(i - 1) :
         Selected(RecordsOf(resp)[j]) /\ ~Unprocessable(RecordsOf(resp)[j])

C26_AllOrNothing ==
  After("fetch_world_bank_indicator") /\ WellFormed(served[1]) =>
    /\ raised = "none"
    /\ HasUnprocessable(served[1]) =>
         /\ result.rows = <<>>
         /\ \E k \in 1..Len(printed) : printed[k].text = "World Bank API error for"
    /\ result.rows # <<>> =>
         /\ ~HasUnprocessable(served[1])
         /\ result.rows = SelectedRows(served[1])

\* a good record followed by one whose country is null: nothing is returned
C26_Witness ==
  /\ After("fetch_world_bank_indicator")
  /\ WellFormed(served[1])
  /\ AcceptedBeforeFailure(served[1])
  /\ RecordsOf(served[1])[1] = GoodRecord("USA", "United States", Int0(5))
  /\ RecordsOf(served[1])[2] = Record(NullCountry, NumValue(Int0(7)))
  /\ result.rows = <<>>
  /\ printed # <<>>

\* the same after a value that is no number
C26_ValueWitness ==
  /\ After("fetch_world_bank_indicator")
  /\ WellFormed(served[1])
  /\ Len(RecordsOf(served[1])) = 2
  /\ RecordsOf(served[1])[1] = GoodRecord("CAN", "Canada", Int0(0))
  /\ RecordsOf(served[1])[2]
       = Record(Country(StrId("DEU"), StrId("Germany")), StrValue(<<"n", "/", "a">>))
  /\ result.rows = <<>>

(***************************************************************************)
(* C27.  The report file is written exactly once, after every listed       *)
(* notebook has been processed; if an existing notebook cannot be          *)
(* processed (its text is no JSON, or a cell lacks cell_type) the error    *)
(* propagates out of main and the report file is neither written nor       *)
(* modified in that run.                                                   *)
(***************************************************************************)
\* the line main prints when it comes to the notebook
LineFor(nb_name) ==
  Message(IF IsPresent(nb_name) THEN ExtractLine(nb_name) ELSE SkipLine(nb_name))

Broken == {i \in Listed : IsPresent(NOTEBOOKS[i]) /\ ~Extractable(fs[NOTEBOOKS[i]])}

\* the error of a notebook that cannot be processed
ErrorOf(file) == IF ~file.json THEN "JSONDecodeError" ELSE "KeyError"

WroteLine(k) == StartsWith(printed[k].text, "\nWrote combined report to ")

\* main came to every listed notebook and then wrote the report, once
WrittenOnceAtTheEnd ==
  /\ raised = "none"
  /\ reportWrites = 1
  /\ AssembledFrom(locals.nav_items, locals.content_sections)
  /\ Len(printed) = Len(NOTEBOOKS) + 2
  /\ \A i \in Listed : printed[i] = LineFor(NOTEBOOKS[i])
  /\ WroteLine(Len(NOTEBOOKS) + 1)

\* main stopped at the first notebook it could not process, and wrote nothing
StoppedWithoutWriting ==
  /\ raised = ErrorOf(fs[NOTEBOOKS[SetMin(Broken)]])
  /\ reportWrites = 0
  /\ Len(printed) = SetMin(Broken)
  /\ \A i \in 1..SetMin(Broken) : printed[i] = LineFor(NOTEBOOKS[i])
  /\ locals.reads[Len(locals.reads)] = NOTEBOOKS[SetMin(Broken)]

\* a run of main that ends with an error leaves the report file as it was
MainFailing == pc' = "returned" /\ call'.fn = "main" /\ raised' # "none"

C27_WrittenOnceOrNotAtAll ==
  /\ [](After("main") => IF Broken = {} THEN WrittenOnceAtTheEnd ELSE StoppedWithoutWriting)
  /\ [][MainFailing => report' = report]_vars

\* the second notebook has a cell without cell_type: the KeyError came out of
\* main after the first notebook was extracted, and the report of an earlier
\* run is still what it was
C27_Witness ==
  /\ After("main")
  /\ Extractable(fs[NOTEBOOKS[1]]) /\ Emitted(NOTEBOOKS[1])
  /\ fs[NOTEBOOKS[2]] = Untyped
  /\ raised = "KeyError"
  /\ locals.reads = <<NOTEBOOKS[1], NOTEBOOKS[2]>>
  /\ reportWrites = 0
  /\ report = <<StaleReport>>

\* a file that is no JSON
C27_NotJsonWitness ==
  /\ After("main")
  /\ fs[NOTEBOOKS[1]] = NotJson
  /\ raised = "JSONDecodeError"
  /\ reportWrites = 0
  /\ report = <<>>

\* the report of an earlier run replaced, once, by the new one
C27_WrittenWitness ==
  /\ After("main")
  /\ Broken = {}
  /\ reportWrites = 1
  /\ report # <<StaleReport>>
  /\ Len(locals.content_sections) = 2

====
